---- MODULE Spec2Model ----
(***************************************************************************)
(* Video-Button-Player: the media-transport synchronisation layer of the   *)
(* play page (client/src/pages/play.tsx) and of the view page              *)
(* (client/src/pages/home.tsx), the settings loader of the play page, the  *)
(* route-settings store (server/storage.ts), the playlist routes           *)
(* (server/routes.ts), the URL history kept in localStorage, the time      *)
(* codec, the ready callback of the IFrame API that the pages share, and   *)
(* the repeat-while-held button (hooks/use-repeat-while-held.ts).          *)
(*                                                                         *)
(* Numbers of seconds are fixed-point integers in units of 1/10000 s, so   *)
(* that a media position may lie between two whole milliseconds.  Strings  *)
(* that the code parses or formats are sequences of one-character strings. *)
(* A handler is one action: the state setters it calls, then the React     *)
(* commit (the DOM follows the new state, and the effects whose            *)
(* dependencies changed run in their order of declaration), repeated while *)
(* an effect has set state.  The volume is not part of the model.          *)
(***************************************************************************)
EXTENDS Integers, Sequences, FiniteSets, TLC

Min(a, b) == IF a <= b THEN a ELSE b
Max(a, b) == IF a >= b THEN a ELSE b

\* n seconds in model units
Sec(n) == n * 10000

----------------------------------------------------------------------------
(* Strings as character sequences *)

Digits == <<"0", "1", "2", "3", "4", "5", "6", "7", "8", "9">>

IsDigit(c) == \E i \in 1..10 : Digits[i] = c

DigitVal(c) == (CHOOSE i \in 1..10 : Digits[i] = c) - 1

\* String(n) for a non-negative integer n
RECURSIVE NatToStr(_)
NatToStr(n) == IF n < 10 THEN <<Digits[n + 1]>>
               ELSE Append(NatToStr(n \div 10), Digits[(n % 10) + 1])

\* Number(s) for a string of decimal digits; Number("") is 0
RECURSIVE DigitsToNat(_)
DigitsToNat(s) == IF s = <<>> THEN 0
                  ELSE 10 * DigitsToNat(SubSeq(s, 1, Len(s) - 1)) + DigitVal(s[Len(s)])

\* s.replace(/\D/g, "")
StripNonDigits(s) == SelectSeq(s, IsDigit)

\* !s.trim()
IsBlank(s) == \A i \in 1..Len(s) : s[i] = " "

\* Parse loop start/end string (milliseconds) to seconds.
parseLoopMs(msStr) ==
    IF IsBlank(msStr) THEN 0
    ELSE LET n == DigitsToNat(StripNonDigits(msStr))
         IN  IF n < 0 THEN 0 ELSE n * 10

\* Format seconds as milliseconds string for loop inputs.
formatMs(seconds) ==
    IF seconds < 0 THEN <<"0">>
    ELSE NatToStr((seconds + 5) \div 10)

----------------------------------------------------------------------------
(* Bounds and input domains *)

\* events the media element has queued and not yet dispatched
MaxEvents == 2
\* stored snapshots, and saveRouteSettings calls in flight at once
MaxRows == 3
MaxCalls == 2

\* media positions the playback is observed at
TimeVals == {Sec(5), Sec(15), 201000}

\* durations a media resource can report
MediaDurations == {Sec(60)}

\* texts typed into the loop start / loop end fields
LoopInputs == {NatToStr(10000), NatToStr(20000)}

\* percentages the progress slider reports
Percents == {25, 50}

----------------------------------------------------------------------------
VARIABLES
    page,       \* the page that is mounted: "play" or "home"
    state,      \* React state of the page component
    refs,       \* its refs: mutable cells read by timers and listeners
    media,      \* the native media element (<audio> of play, <video> of home)
    events,     \* events the element has queued for its listeners
    yt,         \* the embedded YouTube player
    ytApi,      \* the IFrame API script: "loading" or "ready"
    intervals,  \* live window.setInterval timers
    activated,  \* the page has sticky user activation
    cmds,       \* commands the last action sent to a backend
    lastOp,     \* the handler the last action ran
    \* the settings loader
    fields,     \* the settings fields the playback model leaves alone
    loaded,     \* the settings request: "absent", "fetching" or "done"
    response,   \* the response body the loader handled last
    \* the route-settings store
    rows,       \* the route_settings table
    nextId,     \* its serial
    calls,      \* the saveRouteSettings calls between two of their awaits
    got,        \* the storage call that ran last, and what it returned
    \* the playlist routes
    playlistItems,  \* the playlist_items table
    playlistSerial, \* its serial
    requests,       \* the POST /api/playlist requests between their two awaits
    res,            \* the response sent last
    \* the URL history
    localStorage,   \* the items of window.localStorage under the history keys
    storageMode,    \* "ok", "unavailable" (every access throws) or "full"
    called,         \* the history call that ran last, and how it ended
    used,           \* what the run has drawn from its input budget
    \* the time codec
    codec,          \* the conversion made last: its input, its text, its output
    \* the host environment
    autoplay,       \* what may start without a user gesture: "muted" or "none"
    mounted,        \* the page component is mounted
    \* the pages that embed a YouTube player, side by side
    instances,      \* the page components: their phase, their refs, their player
    readyHook,      \* window.onYouTubeIframeAPIReady: the initPlayer calls it makes
    \* a MicroAdjustButton
    hold            \* its refs, its pending timers, the clock, the calls of step

pageVars == <<page, state, refs, media, events, yt, ytApi, intervals, activated,
              cmds, lastOp>>
settingsVars == <<fields, loaded, response>>
storeVars == <<rows, nextId, calls, got>>
playlistVars == <<playlistItems, playlistSerial, requests, res>>
historyVars == <<localStorage, storageMode, called, used>>
instanceVars == <<instances, readyHook>>
widgetVars == <<hold>>
hostVars == <<autoplay, mounted, instanceVars, widgetVars>>
otherVars == <<playlistVars, historyVars, codec, hostVars>>
vars == <<pageVars, settingsVars, storeVars, otherVars>>

\* the playlist_items table before any request
NoPlaylist ==
    /\ playlistItems = {} /\ playlistSerial = 1 /\ requests = <<>>
    /\ res = [route |-> "", status |-> 0, body |-> <<>>]

\* the history keys of the play page and of the view page
HistoryKeys == {"play-audio-urls", "view-mp4-urls"}

\* localStorage.getItem of a key that was never set
NoItem == [kind |-> "none", items |-> <<>>]

\* a browser profile without stored history, and no call made yet
NoHistory ==
    /\ localStorage = [k \in HistoryKeys |-> NoItem]
    /\ storageMode = "ok"
    /\ called = [op |-> "start", key |-> "", url |-> <<>>, before |-> NoItem,
                 threw |-> FALSE, ret |-> NoItem]
    /\ used = [urls |-> [k \in HistoryKeys |-> 0], edits |-> 0]

\* no conversion made yet
NoCodec == codec = [fn |-> "none", input |-> 0, text |-> <<>>, output |-> 0]

\* no page component, and window.onYouTubeIframeAPIReady undefined
NoInstances == instances = <<>> /\ readyHook = <<>>

\* no button rendered
NoHold == hold = <<>>

\* the components a specification leaves alone, as they start
NoOther == NoPlaylist /\ NoHistory /\ NoCodec /\ NoInstances /\ NoHold

\* a specification of one component: no page is mounted, p names the
\* component that runs
Unmounted(p) ==
    /\ page = p
    /\ state = <<>> /\ refs = <<>> /\ events = <<>> /\ cmds = <<>>
    /\ media = [exists |-> FALSE, src |-> "", readyState |-> 0, currentTime |-> 0,
                duration |-> 0, paused |-> TRUE, muted |-> TRUE]
    /\ yt = <<>> /\ ytApi = "absent" /\ intervals = {} /\ activated = FALSE
    /\ lastOp = "start"
    /\ fields = <<>> /\ loaded = "absent" /\ response = <<>>
    /\ rows = {} /\ nextId = 1 /\ calls = <<>>
    /\ got = [op |-> "start", arg |-> <<>>, result |-> {}]
    /\ autoplay = "muted" /\ mounted = FALSE

\* a command op with its numeric argument (0 when it has none)
Cmd(op, arg) == [op |-> op, arg |-> arg]

\* a progress value time/dur*100 kept as the exact fraction
Ratio(num, den) == [num |-> num, den |-> den]

\* The page as a handler finds it: s is the rendered state, p the state its
\* setters have asked for, cmds the commands sent so far.
World == [s |-> state, p |-> state, refs |-> refs, media |-> media,
          events |-> events, yt |-> yt, intervals |-> intervals, cmds |-> <<>>]

\* a state setter: setX(v)
setState(w, x, v) == [w EXCEPT !.p = [@ EXCEPT ![x] = v]]

\* a dependency of an effect differs from the last render
Changed(old, w, deps) == \E x \in deps : w.s[x] # old[x]

----------------------------------------------------------------------------
(* HTMLMediaElement: what the element does on each command *)

\* the autoplay policy of the host lets muted playback start by itself
MutedStarts == autoplay = "muted"

\* element.play(); ok is FALSE when the autoplay policy rejects an unmuted
\* play().  A play() that starts playback queues a play event.
ElPlay(w, ok) ==
    LET m == w.media
        c == Append(w.cmds, Cmd("play", 0))
    IN  IF m.paused /\ (ok \/ (m.muted /\ MutedStarts))
        THEN [w EXCEPT !.media.paused = FALSE,
                       !.media.currentTime = IF m.readyState = 1 /\ @ = m.duration
                                             THEN 0 ELSE @,
                       !.events = Append(@, "play"),
                       !.cmds = c]
        ELSE [w EXCEPT !.cmds = c]

\* the promise of that play() resolves
ElPlayed(w, ok) == ~w.media.paused \/ ok \/ (w.media.muted /\ MutedStarts)

\* element.pause()
ElPause(w) ==
    LET c == Append(w.cmds, Cmd("pause", 0))
    IN  IF ~w.media.paused
        THEN [w EXCEPT !.media.paused = TRUE, !.events = Append(@, "pause"),
                       !.cmds = c]
        ELSE [w EXCEPT !.cmds = c]

\* element.currentTime = t
ElSeek(w, t) ==
    [w EXCEPT !.cmds = Append(@, Cmd("seek", t)),
              !.media.currentTime = IF w.media.readyState = 1
                                    THEN Max(0, Min(t, w.media.duration)) ELSE @]

\* element.muted = m
ElSetMuted(w, m) ==
    [w EXCEPT !.cmds = Append(@, Cmd("muted", IF m THEN 1 ELSE 0)), !.media.muted = m]

\* an element with the src attribute url starts its resource selection: a new
\* element, or the load algorithm of an element whose src changed, which
\* resets it and drops its queued events
ElLoad(w, url, muted) ==
    [w EXCEPT !.media = [exists |-> TRUE, src |-> url, readyState |-> 0,
                         currentTime |-> 0, duration |-> 0, paused |-> TRUE,
                         muted |-> muted],
              !.events = <<>>,
              !.cmds = Append(@, Cmd("load", 0))]

\* the element leaves the document
ElRemove(w) ==
    [w EXCEPT !.media = [exists |-> FALSE, src |-> "", readyState |-> 0,
                         currentTime |-> 0, duration |-> 0, paused |-> TRUE,
                         muted |-> TRUE],
              !.events = <<>>]

----------------------------------------------------------------------------
(* YT.Player: what the embedded player does on each call.  A method is a
   function, and the call is made, once the player is ready. *)

ytDo(y, op, arg) ==
    CASE op = "seekTo" ->
            [y EXCEPT !.time = IF y.duration > 0 THEN Max(0, Min(arg, y.duration))
                               ELSE Max(0, arg)]
      [] op = "playVideo" -> [y EXCEPT !.want = "play"]
      [] op = "pauseVideo" -> [y EXCEPT !.want = "pause"]
      [] op = "loadVideoById" ->
            [y EXCEPT !.videoId = arg, !.time = 0, !.duration = 0, !.state = -1,
                      !.want = "play"]
      [] op = "mute" -> [y EXCEPT !.muted = TRUE]
      [] op = "unMute" -> [y EXCEPT !.muted = FALSE]

\* playerRef.current.op(arg), guarded by typeof ... === "function"
ytCall(w, op, arg) ==
    IF w.refs.playerRef /\ w.yt.ready
    THEN [w EXCEPT !.yt = ytDo(@, op, arg),
                   !.cmds = Append(@, Cmd(op, IF op = "seekTo" THEN arg ELSE 0))]
    ELSE w

----------------------------------------------------------------------------
(* Effects both pages declare alike *)

\* useEffect [isLooping]
isLoopingEffect(old, w) ==
    IF Changed(old, w, {"isLooping"})
    THEN [w EXCEPT !.refs.isLoopingRef = w.s.isLooping]
    ELSE w

\* useEffect [loopStart]: loopStartRef.current
loopStartEffect(old, w) ==
    IF Changed(old, w, {"loopStart"})
    THEN LET parsed == parseLoopMs(w.s.loopStart)
         IN  [w EXCEPT !.refs.loopStartRef = IF w.refs.durationRef > 0
                                             THEN Min(parsed, w.refs.durationRef)
                                             ELSE parsed]
    ELSE w

\* useEffect [loopEnd]: loopEndRef.current; 0 stands for "no explicit end"
loopEndEffect(old, w) ==
    IF Changed(old, w, {"loopEnd"})
    THEN IF w.s.loopEnd # <<>>
         THEN LET parsed == parseLoopMs(w.s.loopEnd)
                  clamped == IF w.refs.durationRef > 0
                             THEN Min(parsed, w.refs.durationRef) ELSE parsed
              IN  [w EXCEPT !.refs.loopEndRef = IF clamped > w.refs.loopStartRef
                                                THEN clamped ELSE 0]
         ELSE [w EXCEPT !.refs.loopEndRef = 0]
    ELSE w

\* useEffect [duration]
durationEffect(old, w) ==
    IF Changed(old, w, {"duration"})
    THEN [w EXCEPT !.refs.durationRef = w.s.duration]
    ELSE w

\* the cleanup of the poll effect: clearInterval(progressIntervalRef.current)
clearProgressInterval(w) ==
    [w EXCEPT !.intervals = @ \ {w.refs.progressIntervalRef}]

\* progressIntervalRef.current = window.setInterval(updateProgress, 200); the
\* id is a new one: not that of a timer that is live or was live when the
\* handler began, nor the one the ref holds
setProgressInterval(w) ==
    LET taken == w.intervals \cup intervals \cup {w.refs.progressIntervalRef}
        id == CHOOSE n \in 1..(Cardinality(taken) + 1) : n \notin taken
    IN  [w EXCEPT !.intervals = @ \cup {id}, !.refs.progressIntervalRef = id]

----------------------------------------------------------------------------
(* play.tsx: the commit *)

\* <audio src={audioUrl}>
playDom(old, w) ==
    IF Changed(old, w, {"audioUrl"})
    THEN ElLoad(w, w.s.audioUrl, w.media.muted)
    ELSE w

\* the loadedmetadata listener of the <audio> element
playOnLoadedMetadata(w, ok) ==
    LET dur == w.media.duration
        w1 == IF dur > 0
              THEN setState(setState(w, "duration", dur), "playerReady", TRUE)
              ELSE w
    IN  IF ~w1.refs.autoPlayAttempted
        THEN LET w2 == ElPlay([w1 EXCEPT !.refs.autoPlayAttempted = TRUE], ok)
             IN  IF ElPlayed(w1, ok) THEN setState(w2, "isPlaying", TRUE) ELSE w2
        ELSE w1

\* useEffect [audioUrl]: the listeners are attached
playListenerEffect(old, w, ok) ==
    IF Changed(old, w, {"audioUrl"}) /\ w.media.readyState >= 1
    THEN playOnLoadedMetadata(w, ok)
    ELSE w

\* useEffect [playerReady]: the poll timer
playPollEffect(old, w) ==
    IF Changed(old, w, {"playerReady"})
    THEN LET c == clearProgressInterval(w)
         IN  IF ~w.s.playerReady THEN c ELSE setProgressInterval(c)
    ELSE w

\* useEffect [isMuted]: mute only toggles sound
playMutedEffect(old, w) ==
    IF Changed(old, w, {"isMuted"}) THEN ElSetMuted(w, w.s.isMuted) ELSE w

\* useEffect [isPlaying]
playPlayingEffect(old, w, ok) ==
    IF Changed(old, w, {"isPlaying"})
    THEN IF w.s.isPlaying THEN ElPlay(w, ok) ELSE ElPause(w)
    ELSE w

playEffects(old, w, ok) ==
    LET w1 == durationEffect(old, loopEndEffect(old, loopStartEffect(old,
                  isLoopingEffect(old, playDom(old, w)))))
        w2 == playPollEffect(old, playListenerEffect(old, w1, ok))
    IN  playPlayingEffect(old, playMutedEffect(old, w2), ok)

----------------------------------------------------------------------------
(* home.tsx: the commit *)

\* {sourceMode === "mp4" && mp4Url && <video ref={mp4VideoRef} src={mp4Url} muted>}
videoRendered(s) == s.sourceMode = "mp4" /\ s.mp4Url # ""

homeDom(old, w) ==
    IF videoRendered(w.s)
    THEN IF ~videoRendered(old) THEN ElLoad(w, w.s.mp4Url, TRUE)
         ELSE IF Changed(old, w, {"mp4Url"})
              THEN ElLoad(w, w.s.mp4Url, w.media.muted)
              ELSE w
    ELSE IF videoRendered(old) THEN ElRemove(w) ELSE w

\* useEffect [sourceMode], useEffect [videoId]: the refs follow the state
homeRefEffects(old, w) ==
    [w EXCEPT !.refs.sourceModeRef = w.s.sourceMode,
              !.refs.currentVideoIdRef = w.s.videoId]

\* the loadedmetadata listener of the <video> element
homeOnLoadedMetadata(w, ok) ==
    LET dur == w.media.duration
        w1 == IF dur > 0
              THEN setState(setState(w, "duration", dur), "playerReady", TRUE)
              ELSE w
        w2 == ElSetMuted(w1, TRUE)
    IN  IF ElPlayed(w2, ok) THEN setState(ElPlay(w2, ok), "isPlaying", TRUE)
        ELSE ElPlay(w2, ok)

\* useEffect [sourceMode, mp4Url]: the listeners are attached
homeListenerEffect(old, w, ok) ==
    IF /\ Changed(old, w, {"sourceMode", "mp4Url"})
       /\ w.s.sourceMode = "mp4" /\ w.media.exists /\ w.media.readyState >= 1
    THEN homeOnLoadedMetadata(w, ok)
    ELSE w

\* useEffect [playerReady, sourceMode, mp4Url]: the poll timer
homePollEffect(old, w) ==
    IF Changed(old, w, {"playerReady", "sourceMode", "mp4Url"})
    THEN LET c == clearProgressInterval(w)
         IN  IF \/ w.s.sourceMode = "youtube" /\ (~w.s.playerReady \/ ~w.refs.playerRef)
                \/ w.s.sourceMode = "mp4" /\ ~w.media.exists
             THEN c
             ELSE setProgressInterval(c)
    ELSE w

\* useEffect [videoId, playerReady, isMuted, sourceMode]
videoIdEffect(old, w) ==
    IF /\ Changed(old, w, {"videoId", "playerReady", "isMuted", "sourceMode"})
       /\ w.s.sourceMode = "youtube"
       /\ w.s.playerReady /\ w.refs.playerRef /\ w.yt.ready
    THEN LET w1 == setState(setState(setState(w, "currentTime", 0),
                                     "progress", Ratio(0, 1)), "duration", 0)
             w2 == ytCall(w1, "loadVideoById", w.s.videoId)
             w3 == IF w.s.isMuted THEN ytCall(w2, "mute", 0) ELSE w2
         IN  setState(setState(w3, "loopEnd", <<>>), "loopStart", <<"0">>)
    ELSE w

\* useEffect [isMuted, playerReady, sourceMode]
homeMutedEffect(old, w) ==
    IF Changed(old, w, {"isMuted", "playerReady", "sourceMode"})
    THEN IF w.s.sourceMode = "youtube" /\ w.s.playerReady /\ w.refs.playerRef
         THEN ytCall(w, IF w.s.isMuted THEN "mute" ELSE "unMute", 0)
         ELSE IF w.s.sourceMode = "mp4" /\ w.media.exists
              THEN ElSetMuted(w, w.s.isMuted)
              ELSE w
    ELSE w

\* useEffect [isPlaying, playerReady, sourceMode]
homePlayingEffect(old, w, ok) ==
    IF Changed(old, w, {"isPlaying", "playerReady", "sourceMode"})
    THEN IF w.s.sourceMode = "youtube" /\ w.s.playerReady /\ w.refs.playerRef
         THEN ytCall(w, IF w.s.isPlaying THEN "playVideo" ELSE "pauseVideo", 0)
         ELSE IF w.s.sourceMode = "mp4" /\ w.media.exists
              THEN IF w.s.isPlaying THEN ElPlay(w, ok) ELSE ElPause(w)
              ELSE w
    ELSE w

\* useEffect [sourceMode]
sourceModeEffect(old, w) ==
    IF Changed(old, w, {"sourceMode"})
    THEN LET w1 == setState(setState(setState(w, "currentTime", 0),
                                     "progress", Ratio(0, 1)), "duration", 0)
             w2 == setState(setState(setState(w1, "playerReady", FALSE),
                                     "loopEnd", <<>>), "loopStart", <<"0">>)
         IN  IF w.s.sourceMode = "youtube" /\ w.refs.playerRef /\ w.yt.ready
             THEN setState(ytCall(w2, "loadVideoById", w.s.videoId),
                           "playerReady", TRUE)
             ELSE w2
    ELSE w

homeEffects(old, w, ok) ==
    LET w1 == durationEffect(old, loopEndEffect(old, loopStartEffect(old,
                  isLoopingEffect(old, homeRefEffects(old, homeDom(old, w))))))
        w2 == videoIdEffect(old, homePollEffect(old, homeListenerEffect(old, w1, ok)))
        w3 == homePlayingEffect(old, homeMutedEffect(old, w2), ok)
    IN  sourceModeEffect(old, w3)

----------------------------------------------------------------------------
(* The React commit *)

\* render the state the setters asked for and run the effects, until no
\* effect has set state; a setter of an unmounted component does nothing
RECURSIVE Commit(_, _)
Commit(w, ok) ==
    IF ~mounted THEN [w EXCEPT !.p = w.s]
    ELSE IF w.p = w.s THEN w
    ELSE LET old == w.s
             w1 == [w EXCEPT !.s = w.p]
         IN  Commit(IF page = "play" THEN playEffects(old, w1, ok)
                    ELSE homeEffects(old, w1, ok), ok)

\* an action ends: the page is as the commit leaves it
Rendered(w, ok, op) ==
    \E r \in {Commit(w, ok)} :
        /\ Len(r.events) <= MaxEvents
        /\ state' = r.s
        /\ refs' = r.refs
        /\ media' = r.media
        /\ events' = r.events
        /\ yt' = r.yt
        /\ intervals' = r.intervals
        /\ cmds' = r.cmds
        /\ lastOp' = op

Finish(w, ok, op) ==
    Rendered(w, ok, op) /\ UNCHANGED <<page, settingsVars, storeVars, otherVars>>

\* the outcomes an unmuted play() can have: the autoplay policy may reject
\* it until the user has interacted with the page
PlayOutcomes == IF activated THEN {TRUE}
                ELSE IF MutedStarts THEN BOOLEAN ELSE {FALSE}

\* a listener or timer callback ends
Callback(w, ok, op) == Finish(w, ok, op) /\ UNCHANGED <<activated, ytApi>>

\* a handler of a user gesture ends; play() is allowed from now on
Gesture(w, op) ==
    mounted /\ Finish(w, TRUE, op) /\ activated' = TRUE /\ UNCHANGED ytApi

----------------------------------------------------------------------------
(* Listeners of the native media element (play.tsx <audio>, home.tsx <video>) *)

\* the browser has the metadata of the current source: loadedmetadata
onLoadedMetadata ==
    \E dur \in MediaDurations, ok \in PlayOutcomes :
        /\ media.exists /\ media.readyState = 0
        /\ LET w == [World EXCEPT !.media.readyState = 1, !.media.duration = dur]
           IN  Callback(IF page = "play" THEN playOnLoadedMetadata(w, ok)
                        ELSE homeOnLoadedMetadata(w, ok),
                        ok, "onLoadedMetadata")

\* playback moves on while the element is playing
MediaAdvance ==
    \E t \in TimeVals :
        /\ media.exists /\ media.readyState = 1 /\ ~media.paused
        /\ t > media.currentTime /\ t < media.duration
        /\ media' = [media EXCEPT !.currentTime = t]
        /\ cmds' = <<>>
        /\ lastOp' = "MediaAdvance"
        /\ UNCHANGED <<page, state, refs, events, yt, ytApi, intervals, activated,
                       settingsVars, storeVars, otherVars>>

\* playback reaches the end of the resource: the element pauses itself and
\* queues pause, then ended
MediaEnds ==
    /\ media.exists /\ media.readyState = 1 /\ ~media.paused
    /\ Len(events) + 2 <= MaxEvents
    /\ media' = [media EXCEPT !.currentTime = media.duration, !.paused = TRUE]
    /\ events' = events \o <<"pause", "ended">>
    /\ cmds' = <<>>
    /\ lastOp' = "MediaEnds"
    /\ UNCHANGED <<page, state, refs, yt, ytApi, intervals, activated,
                   settingsVars, storeVars, otherVars>>

\* the element dispatches the event at the head of its queue
onPlay ==
    /\ events # <<>> /\ Head(events) = "play"
    /\ Callback(setState([World EXCEPT !.events = Tail(events)], "isPlaying", TRUE),
                TRUE, "onPlay")

onPause ==
    /\ events # <<>> /\ Head(events) = "pause"
    /\ Callback(setState([World EXCEPT !.events = Tail(events)], "isPlaying", FALSE),
                TRUE, "onPause")

onEnded ==
    \E ok \in PlayOutcomes :
        /\ events # <<>> /\ Head(events) = "ended"
        /\ LET w == [World EXCEPT !.events = Tail(events)]
           IN  Callback(IF w.refs.isLoopingRef
                        THEN ElPlay(ElSeek(w, w.refs.loopStartRef), ok)
                        ELSE setState(w, "isPlaying", FALSE),
                        ok, "onEnded")

----------------------------------------------------------------------------
(* The poll timer *)

\* updateProgress without its check of the loop toggle
tickIgnoringLoopToggle(w) ==
    IF ~w.media.exists \/ w.refs.isSeeking THEN w
    ELSE LET time == w.media.currentTime
             dur == w.media.duration
         IN  IF dur > 0
             THEN LET w1 == setState(setState(w, "currentTime", time),
                                     "progress", Ratio(time * 100, dur))
                  IN  IF /\ w.refs.loopEndRef > w.refs.loopStartRef
                         /\ time >= w.refs.loopEndRef
                      THEN ElSeek(w1, w.refs.loopStartRef)
                      ELSE w1
             ELSE w

\* updateProgress without its check of the scrub flag
tickDuringScrub(w) ==
    IF ~w.media.exists THEN w
    ELSE LET time == w.media.currentTime
             dur == w.media.duration
         IN  IF dur > 0
             THEN LET w1 == setState(setState(w, "currentTime", time),
                                     "progress", Ratio(time * 100, dur))
                  IN  IF /\ w.refs.isLoopingRef
                         /\ w.refs.loopEndRef > w.refs.loopStartRef
                         /\ time >= w.refs.loopEndRef
                      THEN ElSeek(w1, w.refs.loopStartRef)
                      ELSE w1
             ELSE w

\* updateProgress of play.tsx
playUpdateProgress(w) ==
    IF ~w.media.exists \/ w.refs.isSeeking THEN w
    ELSE LET time == w.media.currentTime
             dur == w.media.duration
         IN  IF dur > 0
             THEN LET w1 == setState(setState(w, "currentTime", time),
                                     "progress", Ratio(time * 100, dur))
                  IN  IF /\ w.refs.isLoopingRef
                         /\ w.refs.loopEndRef > w.refs.loopStartRef
                         /\ time >= w.refs.loopEndRef
                      THEN ElSeek(w1, w.refs.loopStartRef)
                      ELSE w1
             ELSE w

\* updateProgress of home.tsx
homeUpdateProgress(w) ==
    IF w.refs.isSeeking THEN w
    ELSE IF w.refs.sourceModeRef = "youtube" /\ w.refs.playerRef
    THEN IF ~w.yt.ready \/ w.yt.state \notin {1, 3} THEN w
         ELSE LET time == w.yt.time
                  dur == w.yt.duration
              IN  IF dur > 0
                  THEN LET w1 == setState(setState(setState(w, "currentTime", time),
                                          "duration", dur),
                                          "progress", Ratio(time * 100, dur))
                       IN  IF /\ w.refs.isLoopingRef
                              /\ w.refs.loopEndRef > w.refs.loopStartRef
                              /\ time >= w.refs.loopEndRef
                           THEN ytCall(w1, "seekTo", w.refs.loopStartRef)
                           ELSE w1
                  ELSE w
    ELSE IF w.refs.sourceModeRef = "mp4" /\ w.media.exists
    THEN LET time == w.media.currentTime
             dur == w.media.duration
         IN  IF dur > 0
             THEN LET w1 == setState(setState(w, "currentTime", time),
                                     "progress", Ratio(time * 100, dur))
                  IN  IF /\ w.refs.isLoopingRef
                         /\ w.refs.loopEndRef > w.refs.loopStartRef
                         /\ time >= w.refs.loopEndRef
                      THEN ElSeek(w1, w.refs.loopStartRef)
                      ELSE w1
             ELSE w
    ELSE w

\* one tick of the 200 ms poll timer
updateProgress ==
    /\ intervals # {}
    /\ Callback(IF page = "play" THEN playUpdateProgress(World)
                ELSE homeUpdateProgress(World),
                TRUE, "updateProgress")

----------------------------------------------------------------------------
(* home.tsx: the embedded player and its callbacks *)

\* new window.YT.Player("youtube-player", {videoId, playerVars: {autoplay: 1, mute: 1}})
NewPlayer(videoId) ==
    [ready |-> FALSE, videoId |-> videoId, state |-> -1, time |-> 0,
     duration |-> 0, muted |-> TRUE, want |-> "play"]

initPlayer(w) ==
    IF w.refs.playerRef \/ w.refs.playerInitializedRef THEN w
    ELSE [w EXCEPT !.refs.playerInitializedRef = TRUE,
                   !.refs.playerRef = TRUE,
                   !.yt = NewPlayer(w.refs.currentVideoIdRef)]

\* the IFrame API script has loaded: window.onYouTubeIframeAPIReady()
onYouTubeIframeAPIReady ==
    /\ page = "home" /\ ytApi = "loading"
    /\ ytApi' = "ready"
    /\ Finish(initPlayer(World), TRUE, "onYouTubeIframeAPIReady")
    /\ UNCHANGED activated

\* events.onReady; the player may or may not know the duration yet
onReady ==
    \E dur \in {0} \cup MediaDurations :
        /\ refs.playerRef /\ ~yt.ready
        /\ LET w == [World EXCEPT !.yt.ready = TRUE, !.yt.duration = dur]
               w1 == ytCall(setState(w, "playerReady", TRUE), "mute", 0)
           IN  Callback(IF dur > 0 THEN setState(w1, "duration", dur) ELSE w1,
                        TRUE, "onReady")

\* events.onStateChange
onStateChange(w, data) ==
    LET dur == w.yt.duration
        w1 == IF data = 1
              THEN setState(IF dur > 0 THEN setState(w, "duration", dur) ELSE w,
                            "isPlaying", TRUE)
              ELSE IF data = 2 THEN setState(w, "isPlaying", FALSE)
              ELSE w
    IN  IF data = 0 /\ w.refs.isLoopingRef
        THEN ytCall(ytCall(w1, "seekTo", w.refs.loopStartRef), "playVideo", 0)
        ELSE w1

\* the player starts to buffer the video it was asked to play
ytBuffering ==
    /\ refs.playerRef /\ yt.ready /\ yt.want = "play" /\ yt.state = -1
    /\ activated \/ MutedStarts
    /\ Callback(onStateChange([World EXCEPT !.yt.state = 3], 3), TRUE, "onStateChange3")

\* the player plays
ytPlaying ==
    \E dur \in MediaDurations :
        /\ refs.playerRef /\ yt.ready /\ yt.want = "play" /\ yt.state \in {-1, 0, 2, 3}
        /\ activated \/ MutedStarts
        /\ LET w == [World EXCEPT !.yt.state = 1,
                                  !.yt.duration = IF @ > 0 THEN @ ELSE dur]
           IN  Callback(onStateChange(w, 1), TRUE, "onStateChange1")

\* the player pauses
ytPaused ==
    /\ refs.playerRef /\ yt.ready /\ yt.want = "pause" /\ yt.state \in {1, 3}
    /\ Callback(onStateChange([World EXCEPT !.yt.state = 2], 2), TRUE, "onStateChange2")

\* the video ends
ytEnded ==
    /\ refs.playerRef /\ yt.ready /\ yt.state = 1
    /\ LET w == [World EXCEPT !.yt.state = 0, !.yt.time = yt.duration,
                              !.yt.want = "none"]
       IN  Callback(onStateChange(w, 0), TRUE, "onStateChange0")

\* playback moves on while the player is playing
ytAdvance ==
    \E t \in TimeVals :
        /\ refs.playerRef /\ yt.ready /\ yt.state = 1
        /\ t > yt.time /\ t < yt.duration
        /\ yt' = [yt EXCEPT !.time = t]
        /\ cmds' = <<>>
        /\ lastOp' = "ytAdvance"
        /\ UNCHANGED <<page, state, refs, media, events, ytApi, intervals, activated,
                       settingsVars, storeVars, otherVars>>

----------------------------------------------------------------------------
(* Handlers of the controls *)

handlePlayToggle ==
    Gesture(setState(World, "isPlaying", ~state.isPlaying), "handlePlayToggle")

\* the mute switch and the mute buttons: setIsMuted(checked), setIsMuted(m => !m)
handleMuteToggle ==
    Gesture(setState(World, "isMuted", ~state.isMuted), "handleMuteToggle")

handleLoopToggle ==
    Gesture(setState(World, "isLooping", ~state.isLooping), "handleLoopToggle")

\* the progress slider moves: the scrub gesture is in progress
handleProgressChange ==
    \E p \in Percents :
        Gesture(setState([World EXCEPT !.refs.isSeeking = TRUE],
                         "progress", Ratio(p, 1)),
                "handleProgressChange")

\* handleProgressCommit without its last statement
commitKeepingScrub(w, p) ==
    LET seekTime == (p * w.refs.durationRef) \div 100
    IN  IF w.media.exists /\ w.refs.durationRef > 0
        THEN setState(ElSeek(w, seekTime), "currentTime", seekTime)
        ELSE w

\* handleProgressCommit of play.tsx
playProgressCommit(w, p) ==
    LET seekTime == (p * w.refs.durationRef) \div 100
        w1 == IF w.media.exists /\ w.refs.durationRef > 0
              THEN setState(ElSeek(w, seekTime), "currentTime", seekTime)
              ELSE w
    IN  [w1 EXCEPT !.refs.isSeeking = FALSE]

\* handleProgressCommit of home.tsx
homeProgressCommit(w, p) ==
    LET seekTime == (p * w.refs.durationRef) \div 100
        w1 == IF w.refs.sourceModeRef = "youtube" /\ w.refs.playerRef
              THEN ytCall(w, "seekTo", seekTime)
              ELSE IF w.refs.sourceModeRef = "mp4" /\ w.media.exists
                   THEN ElSeek(w, seekTime)
                   ELSE w
        w2 == IF w.refs.durationRef > 0
              THEN setState(w1, "currentTime", seekTime)
              ELSE w
    IN  [w2 EXCEPT !.refs.isSeeking = FALSE]

\* the progress slider is released
handleProgressCommit ==
    \E p \in Percents :
        Gesture(IF page = "play" THEN playProgressCommit(World, p)
                ELSE homeProgressCommit(World, p),
                "handleProgressCommit")

\* onSeek of the hidden-mode controls of play.tsx
playSeek(w, time) ==
    IF w.media.exists THEN setState(ElSeek(w, time), "currentTime", time) ELSE w

\* onSeek of the hidden-mode controls of home.tsx
homeSeek(w, time) ==
    setState(IF w.s.sourceMode = "youtube" /\ w.refs.playerRef
             THEN ytCall(w, "seekTo", time)
             ELSE IF w.s.sourceMode = "mp4" /\ w.media.exists
                  THEN ElSeek(w, time)
                  ELSE w,
             "currentTime", time)

\* the scrub bar and the skip buttons of the hidden-mode controls
onSeek ==
    \E time \in TimeVals :
        Gesture(IF page = "play" THEN playSeek(World, time)
                ELSE homeSeek(World, time),
                "onSeek")

\* the loop start field
loopStartInput ==
    \E text \in LoopInputs : Gesture(setState(World, "loopStart", text), "setLoopStart")

\* the loop end field
loopEndInput ==
    \E text \in LoopInputs : Gesture(setState(World, "loopEnd", text), "setLoopEnd")

onClearLoopStart == Gesture(setState(World, "loopStart", <<"0">>), "setLoopStart")

onClearLoopEnd == Gesture(setState(World, "loopEnd", <<>>), "setLoopEnd")

handleSetLoopStartToCurrent ==
    LET clamped == Min(state.currentTime,
                       IF state.duration > 0 THEN state.duration ELSE state.currentTime)
    IN  Gesture(setState(World, "loopStart", formatMs(clamped)), "setLoopStart")

handleSetLoopEndToCurrent ==
    LET clamped == Min(state.currentTime,
                       IF state.duration > 0 THEN state.duration ELSE state.currentTime)
    IN  IF clamped > parseLoopMs(state.loopStart)
        THEN Gesture(setState(World, "loopEnd", formatMs(clamped)), "setLoopEnd")
        ELSE Gesture(World, "handleSetLoopEndToCurrent")

\* the two-thumb loop range slider
loopRangeSlider ==
    \E v0 \in Percents, v1 \in Percents \cup {100} :
        /\ v0 < v1
        /\ IF state.duration > 0
           THEN Gesture(setState(setState(World, "loopStart",
                                          formatMs((v0 * state.duration) \div 100)),
                                 "loopEnd",
                                 IF v1 < 100
                                 THEN formatMs((v1 * state.duration) \div 100)
                                 ELSE <<>>),
                        "loopRangeSlider")
           ELSE Gesture(World, "loopRangeSlider")

\* the loop range the hidden-mode controls show (HiddenModeControls props)
loopStartSeconds(st) == parseLoopMs(st.loopStart)
loopEndSeconds(st) == IF st.loopEnd # <<>> THEN parseLoopMs(st.loopEnd) ELSE 0
rangeEnd(st) ==
    IF loopEndSeconds(st) > loopStartSeconds(st) THEN loopEndSeconds(st) ELSE st.duration

\* the loop handles are rendered
LoopHandles == mounted /\ state.isLooping /\ state.duration > 0

\* onPointerDown of a loop handle: the drag begins
loopHandlePointerDown ==
    \E handle \in {"start", "end"} :
        /\ LoopHandles /\ refs.draggingRef = "none"
        /\ Gesture([World EXCEPT !.refs.draggingRef = handle], "loopHandlePointerDown")

\* a pointer move of the drag, at percent of the scrub bar; 0.01 s is 100
handleLoopHandlePointerMove ==
    \E percent \in {0, 100} \cup Percents :
        /\ LoopHandles /\ refs.draggingRef # "none"
        /\ LET seconds == (percent * state.duration) \div 100
               endSec == rangeEnd(state)
           IN  IF refs.draggingRef = "start"
               THEN Gesture(setState(World, "loopStart",
                                     formatMs(Min(seconds, Max(0, endSec - 100)))),
                            "handleLoopHandlePointerMove")
               ELSE Gesture(setState(World, "loopEnd",
                                     formatMs(Max(seconds, loopStartSeconds(state) + 100))),
                            "handleLoopHandlePointerMove")

\* onPointerUp, onPointerCancel of a loop handle
handleLoopHandlePointerUp ==
    /\ mounted /\ refs.draggingRef # "none"
    /\ Gesture([World EXCEPT !.refs.draggingRef = "none"], "handleLoopHandlePointerUp")

\* the setters a media URL change calls
resetForUrl(w) ==
    LET w1 == setState(setState(setState(w, "currentTime", 0),
                                "progress", Ratio(0, 1)), "duration", 0)
    IN  setState(setState(setState(w1, "playerReady", FALSE),
                          "loopEnd", <<>>), "loopStart", <<"0">>)

\* the media URL field of play.tsx
handleAudioUrlChange ==
    \E value \in {"u1", "u2"} :
        /\ page = "play" /\ value # state.audioUrl
        /\ Gesture(resetForUrl(setState([World EXCEPT !.refs.autoPlayAttempted = FALSE],
                                        "audioUrl", value)),
                   "handleAudioUrlChange")

\* the MP4 URL field of home.tsx
handleMp4UrlChange ==
    \E value \in {"m1", "m2"} :
        /\ page = "home" /\ value # state.mp4Url
        /\ Gesture(resetForUrl(setState(World, "mp4Url", value)), "handleMp4UrlChange")

\* the YouTube / MP4 switch of home.tsx
handleSourceModeToggle ==
    /\ page = "home"
    /\ Gesture(setState(World, "sourceMode",
                        IF state.sourceMode = "youtube" THEN "mp4" ELSE "youtube"),
               "handleSourceModeToggle")

\* the Stem Separator button stops the playback
openStemModal ==
    LET w == setState(World, "isPlaying", FALSE)
    IN  Gesture(IF page = "play"
                THEN IF w.media.exists THEN ElPause(w) ELSE w
                ELSE IF w.s.sourceMode = "youtube" /\ w.refs.playerRef
                     THEN ytCall(w, "pauseVideo", 0)
                     ELSE IF w.s.sourceMode = "mp4" /\ w.media.exists
                          THEN ElPause(w)
                          ELSE w,
                "openStemModal")

\* the component unmounts: the cleanups of its effects run (the player is
\* destroyed, the listeners are removed, the poll timer is cleared) and its
\* elements leave the document
unmount ==
    /\ mounted
    /\ mounted' = FALSE
    /\ \E w \in {ElRemove(clearProgressInterval(World))} :
           /\ media' = w.media
           /\ events' = w.events
           /\ intervals' = w.intervals
    /\ refs' = IF page = "home" /\ refs.playerRef
               THEN [refs EXCEPT !.playerRef = FALSE, !.playerInitializedRef = FALSE]
               ELSE refs
    /\ yt' = IF page = "home" /\ refs.playerRef THEN NewPlayer("") ELSE yt
    /\ cmds' = <<>>
    /\ lastOp' = "unmount"
    /\ UNCHANGED <<page, state, ytApi, activated, settingsVars, storeVars,
                   playlistVars, historyVars, codec, autoplay, instanceVars,
                   widgetVars>>

----------------------------------------------------------------------------
(* play.tsx: the settings loader *)

\* the keys applySettings reads from data.settings, in its order
SettingsKeys ==
    <<"title", "buttonLabel", "buttonColor", "buttonPosX", "buttonPosY", "buttonScale",
      "visitModalWidth", "qrButtonPosY", "qrButtonVisible", "qrButtonColor",
      "ctaAsButton", "ctaX", "ctaY", "ctaScale", "ctaVisible", "ctaFadeInSeconds",
      "ctaShape", "ctaBorderColor", "ctaBorderThickness", "ctaShadow3d", "ctaGlow",
      "volume", "isMuted", "isLooping", "loopStart", "loopEnd",
      "shape", "containerRounded", "scale", "containerPosX", "containerPosY",
      "containerWidth", "containerHeight", "lockViewportScrollY", "lockViewportScrollX",
      "mediaZIndex", "bgColor", "borderColor", "containerVisible",
      "displayMode",
      "iframe1PosX", "iframe1PosY", "iframe1Scale", "iframe1Width", "iframe1Height",
      "iframe1Visible", "iframe1Rounded", "lockIframe1ScrollY", "lockIframe1ScrollX",
      "iframe1ZIndex",
      "iframe2PosX", "iframe2PosY", "iframe2Scale", "iframe2Width", "iframe2Height",
      "iframe2Visible", "iframe2Rounded", "lockIframe2ScrollY", "lockIframe2ScrollX",
      "iframe2ZIndex">>

\* the keys applySettings reads from data.globalUrls, in its order
UrlKeys == <<"buttonUrl", "audioUrl", "ctaImageUrl", "imageUrl", "iframe1Url", "iframe2Url">>

Range(seq) == {seq[i] : i \in 1..Len(seq)}

FieldKeys == Range(SettingsKeys) \cup Range(UrlKeys)

\* the fields the playback model keeps in state
PageKeys == {"isMuted", "isLooping", "loopStart", "loopEnd", "audioUrl"}

\* the value of the field k
Field(st, f, k) == IF k \in PageKeys THEN st[k] ELSE f[k]

\* setK(v), on a = [w |-> the page, f |-> the other fields]
setField(a, k, v) ==
    IF k \in PageKeys THEN [a EXCEPT !.w = setState(a.w, k, v)]
    ELSE [a EXCEPT !.f[k] = v]

\* if (m.k !== undefined) setK(m.k), for each key of the list
RECURSIVE applyKeys(_, _, _, _)
applyKeys(a, keys, m, i) ==
    IF i > Len(keys) THEN a
    ELSE applyKeys(IF keys[i] \in DOMAIN m THEN setField(a, keys[i], m[keys[i]]) ELSE a,
                   keys, m, i + 1)

\* a loader that takes every field from the snapshot, an absent key as the default
replaceSettings(a, d) ==
    LET b == [a EXCEPT !.f = [k \in DOMAIN a.f |-> "default"]]
    IN  applyKeys(applyKeys(b, SettingsKeys, d.settings, 1), UrlKeys, d.globalUrls, 1)

applySettings(a, d) ==
    applyKeys(applyKeys(a, SettingsKeys, d.settings, 1), UrlKeys, d.globalUrls, 1)

\* the keys the stored snapshots of the model hold, and the values they hold
SnapshotSettingsKeys == {"title", "isMuted", "loopEnd"}
SnapshotUrlKeys == {"buttonUrl", "audioUrl"}
Versions == 1..2

Saved(k, c) ==
    CASE k = "isMuted" -> (c = 1)
      [] k = "loopEnd" -> IF c = 1 THEN NatToStr(10000) ELSE NatToStr(90000)
      [] k = "audioUrl" -> IF c = 1 THEN "u1" ELSE "u2"
      [] OTHER -> IF c = 1 THEN "saved1" ELSE "saved2"

\* data.globalUrls || {}
OrEmpty(body, key) == IF key \in DOMAIN body THEN body[key] ELSE <<>>

\* .then(data => ...) of the mount effect; the body is a stored snapshot,
\* with or without globalUrls, or holds no settings at all
onSettingsResponse ==
    \E ks \in SUBSET SnapshotSettingsKeys, us \in SUBSET SnapshotUrlKeys,
       c \in Versions, found \in BOOLEAN, withUrls \in BOOLEAN, ok \in PlayOutcomes :
        /\ loaded = "fetching"
        /\ withUrls \/ us = {}
        /\ found \/ (ks = {} /\ us = {} /\ c = 1 /\ withUrls)
        /\ LET s == [k \in ks |-> Saved(k, c)]
               u == [k \in us |-> Saved(k, c)]
               body == IF ~found THEN <<>>
                       ELSE IF withUrls THEN [settings |-> s, globalUrls |-> u]
                       ELSE [settings |-> s]
               a == [w |-> World, f |-> fields]
               b == IF "settings" \in DOMAIN body
                    THEN applySettings(a, [settings |-> body.settings,
                                           globalUrls |-> OrEmpty(body, "globalUrls")])
                    ELSE a
           IN  /\ Rendered(b.w, ok, IF "settings" \in DOMAIN body THEN "applySettings"
                                    ELSE "settingsResponse")
               /\ fields' = IF mounted THEN b.f ELSE fields
               /\ response' = body
        /\ loaded' = "done"
        /\ UNCHANGED <<page, ytApi, activated, storeVars, otherVars>>

\* .catch(() => {}): the request or the parse of its body fails
onSettingsFailure ==
    /\ loaded = "fetching"
    /\ loaded' = "done"
    /\ cmds' = <<>>
    /\ lastOp' = "settingsFailure"
    /\ UNCHANGED <<page, state, refs, media, events, yt, ytApi, intervals, activated,
                   fields, response, storeVars, otherVars>>

\* the fields the model edits, and the text typed into them
EditKeys == {"title", "buttonLabel", "buttonUrl"}

\* onChange={(e) => setK(e.target.value)} of an input of the settings panel
editField ==
    \E k \in EditKeys :
        /\ page = "play" /\ mounted /\ fields[k] # "edited"
        /\ fields' = [fields EXCEPT ![k] = "edited"]
        /\ cmds' = <<>>
        /\ lastOp' = "editField"
        /\ activated' = TRUE
        /\ UNCHANGED <<page, state, refs, media, events, yt, ytApi, intervals,
                       loaded, response, storeVars, otherVars>>

----------------------------------------------------------------------------
(* server/storage.ts: the route settings *)

Abs(n) == IF n < 0 THEN -n ELSE n

\* what the requests of the model save: a route, a width, a settings map
\* and the global URLs
SaveInputs ==
    {[route |-> "play", width |-> w, settings |-> v[1], globalUrls |-> v[2]]
     : w \in {400, 800, 1200}, v \in {<<"S1", "U1">>, <<"S2", "U2">>}}
    \cup {[route |-> "view", width |-> 800, settings |-> "S1", globalUrls |-> "U1"]}

\* what the requests of the model ask for
GetInputs ==
    {[route |-> "play", width |-> 600], [route |-> "play", width |-> 900],
     [route |-> "view", width |-> 900]}

\* .where(and(eq(route, data.route), eq(width, data.width)))
OfRouteAndWidth(rs, d) == {r \in rs : r.route = d.route /\ r.width = d.width}

\* .where(eq(route, route))
OfRoute(rs, route) == {r \in rs : r.route = route}

\* db.update(routeSettings).set({settings, globalUrls}).where(route and width)
updateSnapshot(rs, d) ==
    {IF r.route = d.route /\ r.width = d.width
     THEN [r EXCEPT !.settings = d.settings, !.globalUrls = d.globalUrls]
     ELSE r : r \in rs}

\* db.insert(routeSettings).values(data)
insertSnapshot(rs, id, d) ==
    rs \cup {[id |-> id, route |-> d.route, width |-> d.width,
              settings |-> d.settings, globalUrls |-> d.globalUrls]}

\* a save that leaves the other widths of the route alone
keepGlobalUrls(rs, d) == rs

\* db.update(routeSettings).set({globalUrls}).where(route)
propagateGlobalUrls(rs, d) ==
    {IF r.route = d.route THEN [r EXCEPT !.globalUrls = d.globalUrls] ELSE r : r \in rs}

\* the inserts the calls in flight are still to make
PendingInserts == Cardinality({i \in 1..Len(calls) :
                                   calls[i].pc = "write" /\ ~calls[i].existing})

StoreStep(op, arg, result) ==
    /\ got' = [op |-> op, arg |-> arg, result |-> result]
    /\ lastOp' = op
    /\ cmds' = <<>>
    /\ UNCHANGED <<page, state, refs, media, events, yt, ytApi, intervals, activated,
                   settingsVars, otherVars>>

\* saveRouteSettings is called and its select runs
saveSelect ==
    \E d \in SaveInputs :
        /\ page = "server" /\ Len(calls) < MaxCalls
        /\ LET existing == OfRouteAndWidth(rows, d) # {}
           IN  /\ Cardinality(rows) + PendingInserts + (IF existing THEN 0 ELSE 1)
                      <= MaxRows
               /\ calls' = Append(calls, [data |-> d, existing |-> existing,
                                          pc |-> "write"])
        /\ StoreStep("saveSelect", <<>>, {})
        /\ UNCHANGED <<rows, nextId>>

\* its update or its insert runs
saveWrite ==
    \E i \in 1..Len(calls) :
        /\ calls[i].pc = "write"
        /\ IF calls[i].existing
           THEN rows' = updateSnapshot(rows, calls[i].data) /\ nextId' = nextId
           ELSE rows' = insertSnapshot(rows, nextId, calls[i].data)
                /\ nextId' = nextId + 1
        /\ calls' = [calls EXCEPT ![i].pc = "propagate"]
        /\ StoreStep("saveWrite", <<>>, {})

\* its last update runs and the call returns
savePropagate ==
    \E i \in 1..Len(calls) :
        /\ calls[i].pc = "propagate"
        /\ rows' = propagateGlobalUrls(rows, calls[i].data)
        /\ calls' = SubSeq(calls, 1, i - 1) \o SubSeq(calls, i + 1, Len(calls))
        /\ StoreStep("saveRouteSettings", calls[i].data, {})
        /\ UNCHANGED nextId

\* a scan that returns the first row
firstRow(all, width) == all[1]

\* the loop of getRouteSettings over the rows selected
RECURSIVE closestFrom(_, _, _, _, _)
closestFrom(all, width, i, closest, minDiff) ==
    IF i > Len(all) THEN closest
    ELSE LET diff == Abs(all[i].width - width)
         IN  IF diff < minDiff THEN closestFrom(all, width, i + 1, all[i], diff)
             ELSE closestFrom(all, width, i + 1, closest, minDiff)

closestRow(all, width) ==
    closestFrom(all, width, 1, all[1], Abs(all[1].width - width))

\* the orders in which a select without ORDER BY can return the rows rs
Orders(rs) ==
    {sq \in [1..Cardinality(rs) -> rs] : {sq[i] : i \in 1..Cardinality(rs)} = rs}

getRouteSettings ==
    \E q \in GetInputs :
        \E all \in Orders(OfRoute(rows, q.route)) :
            /\ page = "server"
            /\ StoreStep("getRouteSettings", q,
                         IF Len(all) = 0 THEN {} ELSE {closestRow(all, q.width)})
            /\ UNCHANGED <<rows, nextId, calls>>

\* the server with an empty table
InitStore ==
    /\ page = "server"
    /\ state = <<>> /\ refs = <<>> /\ events = <<>> /\ cmds = <<>>
    /\ media = [exists |-> FALSE, src |-> "", readyState |-> 0, currentTime |-> 0,
                duration |-> 0, paused |-> TRUE, muted |-> TRUE]
    /\ yt = <<>> /\ ytApi = "absent" /\ intervals = {} /\ activated = FALSE
    /\ lastOp = "start"
    /\ fields = <<>> /\ loaded = "absent" /\ response = <<>>
    /\ rows = {} /\ nextId = 1 /\ calls = <<>>
    /\ got = [op |-> "start", arg |-> <<>>, result |-> {}]
    /\ NoOther /\ autoplay = "muted" /\ mounted = FALSE

NextStore ==
    \/ saveSelect
    \/ saveWrite
    \/ savePropagate
    \/ getRouteSettings

SpecStore == InitStore /\ [][NextStore]_vars

----------------------------------------------------------------------------
(* server/routes.ts: the playlist routes *)

\* playlist entries stored over a run, and POST requests in flight at once
MaxSerial == 4
MaxPosts == 2

\* Number.isNaN's argument when parseInt finds no digit
NaN == -1

\* parseInt(s, 10) of a string without sign or leading blanks: the number
\* its leading digits spell
parseInt(s) ==
    LET n == CHOOSE k \in 0..Len(s) :
                 /\ \A i \in 1..k : IsDigit(s[i])
                 /\ k = Len(s) \/ ~IsDigit(s[k + 1])
    IN  IF n = 0 THEN NaN ELSE DigitsToNat(SubSeq(s, 1, n))

\* request bodies: two videos, and a body without videoId
PostBodies ==
    {[videoId |-> "v1", title |-> "t"], [videoId |-> "v2", title |-> "t"],
     [title |-> "t"]}

\* the :id of the DELETE requests
IdParams == {<<"1">>, <<"2">>, <<"3">>, <<"2", "x">>, <<"x">>}

\* insertPlaylistItemSchema.safeParse(body).success: video_id and title are
\* notNull without default
safeParse(body) == {"videoId", "title"} \subseteq DOMAIN body

\* db.select().from(playlistItems).where(eq(videoId, videoId))
getPlaylistItemByVideoId(items, videoId) == {it \in items : it.videoId = videoId}

\* db.insert(playlistItems).values(item).returning()
addPlaylistItem(items, id, item) ==
    items \cup {[id |-> id, videoId |-> item.videoId, title |-> item.title]}

\* db.delete(playlistItems).where(eq(id, id))
removePlaylistItem(items, id) == {it \in items : it.id # id}

ApiStep(op, route, status, body) ==
    /\ res' = [route |-> route, status |-> status, body |-> body]
    /\ lastOp' = op
    /\ cmds' = <<>>
    /\ UNCHANGED <<page, state, refs, media, events, yt, ytApi, intervals, activated,
                   settingsVars, storeVars, historyVars, codec, hostVars>>

\* POST /api/playlist up to the result of its select: 400, 409, or on to
\* the insert
postPlaylist ==
    \E body \in PostBodies :
        /\ page = "server"
        /\ IF ~safeParse(body)
           THEN /\ ApiStep("POST /api/playlist", "POST", 400, body)
                /\ UNCHANGED requests
           ELSE IF getPlaylistItemByVideoId(playlistItems, body.videoId) # {}
           THEN /\ ApiStep("POST /api/playlist", "POST", 409, body)
                /\ UNCHANGED requests
           ELSE /\ Len(requests) < MaxPosts
                /\ playlistSerial + Len(requests) <= MaxSerial
                /\ requests' = Append(requests, body)
                /\ ApiStep("getPlaylistItemByVideoId", "", 0, <<>>)
        /\ UNCHANGED <<playlistItems, playlistSerial>>

\* its insert runs and it answers 201
postPlaylistInsert ==
    \E i \in 1..Len(requests) :
        /\ playlistItems' = addPlaylistItem(playlistItems, playlistSerial, requests[i])
        /\ playlistSerial' = playlistSerial + 1
        /\ requests' = SubSeq(requests, 1, i - 1) \o SubSeq(requests, i + 1, Len(requests))
        /\ ApiStep("POST /api/playlist", "POST", 201, requests[i])

\* DELETE /api/playlist/:id
deletePlaylist ==
    \E param \in IdParams :
        /\ page = "server"
        /\ LET id == parseInt(param)
           IN  IF id = NaN
               THEN /\ ApiStep("DELETE /api/playlist/:id", "DELETE", 400, param)
                    /\ UNCHANGED playlistItems
               ELSE /\ playlistItems' = removePlaylistItem(playlistItems, id)
                    /\ ApiStep("DELETE /api/playlist/:id", "DELETE", 200, param)
        /\ UNCHANGED <<playlistSerial, requests>>

NextPlaylist ==
    \/ postPlaylist
    \/ postPlaylistInsert
    \/ deletePlaylist

\* the server with an empty route_settings table and an empty playlist
SpecPlaylist == InitStore /\ [][NextPlaylist]_vars

----------------------------------------------------------------------------
(* pages/play.tsx, pages/home.tsx: the URL history in localStorage *)

MAX_HISTORY == 20

\* distinct URLs a run saves under the first key, and calls other than the
\* save of a new URL (re-saves, removals, blank saves, storage faults)
MaxUrls == 25
MaxEdits == 2

\* the i-th distinct URL, and URLs that trim to nothing
Url(i) == <<"u">> \o NatToStr(i)
BlankUrls == {<<>>, <<" ", " ">>}

\* distinct URLs the run may save under a key
UrlsOf(key) == IF key = "play-audio-urls" THEN MaxUrls ELSE 1

\* a stored string, by what JSON.parse makes of it: an array with its
\* elements, another JSON value (null, an object), text that does not
\* parse, or ""
Array(items) == [kind |-> "array", items |-> items]
Corrupt ==
    {[kind |-> k, items |-> <<>>] : k \in {"empty", "unparseable", "null", "object"}}

\* history.filter((u) => u !== url)
filter(items, url) == SelectSeq(items, LAMBDA u : u # url)

\* a save that keeps every entry
keepAll(items) == items

\* [url, ...filtered].slice(0, MAX_HISTORY)
slice(items) == SubSeq(items, 1, Min(Len(items), MAX_HISTORY))

\* what a call does: the value it returns or the fact that it threw, and
\* the items of localStorage afterwards
Outcome(threw, ret, store) == [threw |-> threw, ret |-> ret, store |-> store]

\* localStorage.setItem(key, JSON.stringify(list)) and the return of list
setItem(store, mode, key, list) ==
    IF mode = "ok" THEN Outcome(FALSE, Array(list), [store EXCEPT ![key] = Array(list)])
    ELSE Outcome(TRUE, NoItem, store)

\* try { stored ? JSON.parse(stored) : [] } catch { return [] }
loadUrlHistory(store, mode, key) ==
    IF mode = "unavailable" THEN Array(<<>>)
    ELSE IF store[key].kind \in {"none", "empty", "unparseable"} THEN Array(<<>>)
    ELSE store[key]

\* a save that puts the URL behind the entries it finds
saveAtEnd(store, mode, key, url) ==
    IF IsBlank(url) THEN Outcome(FALSE, loadUrlHistory(store, mode, key), store)
    ELSE LET history == loadUrlHistory(store, mode, key)
         IN  IF history.kind # "array" THEN Outcome(TRUE, NoItem, store)
             ELSE setItem(store, mode, key,
                          slice(filter(history.items, url) \o <<url>>))

saveUrlToHistory(store, mode, key, url) ==
    IF IsBlank(url) THEN Outcome(FALSE, loadUrlHistory(store, mode, key), store)
    ELSE LET history == loadUrlHistory(store, mode, key)
         IN  IF history.kind # "array" THEN Outcome(TRUE, NoItem, store)
             ELSE setItem(store, mode, key,
                          slice(<<url>> \o filter(history.items, url)))

removeUrlFromHistory(store, mode, key, url) ==
    LET history == loadUrlHistory(store, mode, key)
    IN  IF history.kind # "array" THEN Outcome(TRUE, NoItem, store)
        ELSE setItem(store, mode, key, filter(history.items, url))

HistoryStep(op, key, url, out, fresh, edit) ==
    /\ localStorage' = out.store
    /\ called' = [op |-> op, key |-> key, url |-> url, before |-> localStorage[key],
                  threw |-> out.threw, ret |-> out.ret]
    /\ used' = [urls |-> [used.urls EXCEPT ![key] = @ + fresh],
                edits |-> used.edits + edit]
    /\ lastOp' = op
    /\ cmds' = <<>>
    /\ UNCHANGED <<page, state, refs, media, events, yt, ytApi, intervals, activated,
                   settingsVars, storeVars, playlistVars, storageMode, codec, hostVars>>

\* the URLs a re-save or a removal picks among those stored under a key:
\* the first, the middle and the last one
Stored(key) ==
    LET it == localStorage[key]
    IN  IF it.kind = "array" /\ it.items # <<>>
        THEN {it.items[1], it.items[(Len(it.items) + 1) \div 2], it.items[Len(it.items)]}
        ELSE {}

historyLoad ==
    \E key \in HistoryKeys :
        /\ page = "browser"
        /\ called.op # "loadUrlHistory" \/ called.key # key
        /\ HistoryStep("loadUrlHistory", key, <<>>,
                       Outcome(FALSE, loadUrlHistory(localStorage, storageMode, key),
                               localStorage), 0, 0)

\* the save of a URL the run has not saved under the key before
historySaveNew ==
    \E key \in HistoryKeys :
        /\ page = "browser"
        /\ used.urls[key] < UrlsOf(key)
        /\ LET url == Url(used.urls[key] + 1)
           IN  HistoryStep("saveUrlToHistory", key, url,
                           saveUrlToHistory(localStorage, storageMode, key, url), 1, 0)

\* the save of a stored URL or of a blank one
historySaveAgain ==
    \E key \in HistoryKeys :
        \E url \in Stored(key) \cup BlankUrls :
            /\ page = "browser"
            /\ used.edits < MaxEdits
            /\ HistoryStep("saveUrlToHistory", key, url,
                           saveUrlToHistory(localStorage, storageMode, key, url), 0, 1)

\* the removal of a stored URL or of one that is not stored
historyRemove ==
    \E key \in HistoryKeys :
        \E url \in Stored(key) \cup {Url(0)} :
            /\ page = "browser"
            /\ used.edits < MaxEdits
            /\ HistoryStep("removeUrlFromHistory", key, url,
                           removeUrlFromHistory(localStorage, storageMode, key, url), 0, 1)

FaultStep(op) ==
    /\ page = "browser"
    /\ used.edits < MaxEdits
    /\ used' = [used EXCEPT !.edits = @ + 1]
    /\ lastOp' = op
    /\ cmds' = <<>>
    /\ UNCHANGED <<page, state, refs, media, events, yt, ytApi, intervals, activated,
                   settingsVars, storeVars, playlistVars, called, codec, hostVars>>

\* the browser denies the storage, or the origin's quota is used up
storageFails ==
    \E mode \in {"unavailable", "full"} :
        /\ storageMode = "ok"
        /\ storageMode' = mode
        /\ FaultStep("storageFails")
        /\ UNCHANGED localStorage

\* something else writes an item under a history key
storageCorrupted ==
    \E key \in HistoryKeys, doc \in Corrupt :
        /\ localStorage' = [localStorage EXCEPT ![key] = doc]
        /\ FaultStep("storageCorrupted")
        /\ UNCHANGED storageMode

\* a browser tab with an empty history
InitHistory == Unmounted("browser") /\ NoOther

NextHistory ==
    \/ historyLoad
    \/ historySaveNew
    \/ historySaveAgain
    \/ historyRemove

SpecHistory == InitHistory /\ [][NextHistory]_vars

NextHistoryFaults ==
    \/ NextHistory
    \/ storageFails
    \/ storageCorrupted

SpecHistoryFaults == InitHistory /\ [][NextHistoryFaults]_vars

----------------------------------------------------------------------------
(* pages/play.tsx, pages/home.tsx: the time codec *)

\* the whole seconds formatTime is applied to, and the last millisecond
\* formatMs is applied to
MaxSeconds == 7199

\* the whole seconds whose milliseconds formatMs is applied to: the ends of
\* the range and the places where the text gains a digit
MaxMs == 7199000
MsSeconds == {0, 1, 9, 10, 99, 100, 999, 1000, 3599, 3600, 7198, 7199}

\* n.toString().padStart(2, "0")
padStart2(n) == IF n < 10 THEN <<"0">> \o NatToStr(n) ELSE NatToStr(n)

\* a text that shows the minutes only
formatMinutes(seconds) ==
    IF seconds < 0 THEN <<"0", ":", "0", "0">>
    ELSE NatToStr(seconds \div Sec(60)) \o <<":", "0", "0">>

formatTime(seconds) ==
    IF seconds < 0 THEN <<"0", ":", "0", "0">>
    ELSE LET mins == seconds \div Sec(60)
             secs == (seconds % Sec(60)) \div Sec(1)
         IN  NatToStr(mins) \o <<":">> \o padStart2(secs)

\* Number(part) of a text of digits and other characters: "" is 0, a text
\* with a character that is no digit is NaN
Number(part) == IF \A i \in 1..Len(part) : IsDigit(part[i]) THEN DigitsToNat(part)
                ELSE NaN

\* timeStr.split(":")
split(timeStr) ==
    LET colons == {i \in 1..Len(timeStr) : timeStr[i] = ":"}
        from(i) == IF \E c \in colons : c < i
                   THEN 1 + CHOOSE c \in colons : c < i /\ \A d \in colons : d < i => d <= c
                   ELSE 1
        ends == colons \cup {Len(timeStr) + 1}
        order == CHOOSE sq \in [1..Cardinality(ends) -> ends] :
                     \A i \in 1..(Cardinality(ends) - 1) : sq[i] < sq[i + 1]
    IN  [n \in 1..Cardinality(ends) |-> SubSeq(timeStr, from(order[n]), order[n] - 1)]

parseTime(timeStr) ==
    IF timeStr = <<>> THEN 0
    ELSE LET parts == [n \in DOMAIN split(timeStr) |-> Number(split(timeStr)[n])]
         IN  IF \E n \in DOMAIN parts : parts[n] = NaN THEN 0
             ELSE IF Len(parts) = 2 THEN Sec(Max(0, parts[1] * 60 + parts[2]))
             ELSE IF Len(parts) = 1 THEN Sec(Max(0, parts[1]))
             ELSE 0

\* a run makes one conversion
CodecStep(fn, input, text, output) ==
    /\ codec' = [fn |-> fn, input |-> input, text |-> text, output |-> output]
    /\ lastOp' = fn
    /\ cmds' = <<>>
    /\ UNCHANGED <<page, state, refs, media, events, yt, ytApi, intervals, activated,
                   settingsVars, storeVars, playlistVars, historyVars, hostVars>>

\* parseTime(formatTime(s)) for a whole number of seconds s
timeRoundTrip ==
    /\ page = "codec" /\ codec.fn = "none"
    /\ \E s \in 0..MaxSeconds :
           \E text \in {formatTime(Sec(s))} :
               CodecStep("formatTime", Sec(s), text, parseTime(text))

\* parseLoopMs(formatMs(ms / 1000)) for a whole number of milliseconds ms
msRoundTrip ==
    /\ page = "codec" /\ codec.fn = "none"
    /\ \E s \in MsSeconds, f \in 0..999 :
           /\ s * 1000 + f <= MaxMs
           /\ \E text \in {formatMs((s * 1000 + f) * 10)} :
                  CodecStep("formatMs", (s * 1000 + f) * 10, text, parseLoopMs(text))

\* parseTime of texts formatTime does not produce
parseOther ==
    /\ page = "codec" /\ codec.fn = "none"
    /\ \E text \in {<<>>, <<"9", "0">>, <<":", "5">>, <<"1", ":", "x">>,
                     <<"1", ":", "2", ":", "3">>} :
           CodecStep("parseTime", 0, text, parseTime(text))

InitCodec == Unmounted("codec") /\ NoOther

NextCodec ==
    \/ timeRoundTrip
    \/ msRoundTrip
    \/ parseOther

SpecCodec == InitCodec /\ [][NextCodec]_vars

----------------------------------------------------------------------------
(* home.tsx, the search page: the player effect of several page components
   that share window.onYouTubeIframeAPIReady *)

MaxInstances == 3

Instances == 1..MaxInstances

\* a page component before its mount
NewInstance ==
    [phase |-> "new",
     refs |-> [playerRef |-> FALSE, playerInitializedRef |-> FALSE,
               currentVideoIdRef |-> "v1"],
     yt |-> NewPlayer(""),
     created |-> 0]

\* window.onYouTubeIframeAPIReady = () => { initPlayer(); }: a registration
\* that forgets the callback set before
overwriteCallback(hook, i) == <<i>>

\* const existingCallback = window.onYouTubeIframeAPIReady;
\* window.onYouTubeIframeAPIReady = () => { if (existingCallback) existingCallback(); initPlayer(); }
chainCallback(hook, i) == Append(hook, i)

\* initPlayer() of the component c; created counts its new YT.Player calls
runInitPlayer(c) ==
    LET r == initPlayer(c)
    IN  IF r.refs = c.refs THEN c ELSE [r EXCEPT !.created = @ + 1]

\* the callback calls the initPlayer of its components, the oldest first
RECURSIVE runHook(_, _, _)
runHook(cs, hook, n) ==
    IF n > Len(hook) THEN cs
    ELSE runHook([cs EXCEPT ![hook[n]] = runInitPlayer(@)], hook, n + 1)

ReadyStep(op) ==
    /\ cmds' = <<>>
    /\ lastOp' = op
    /\ UNCHANGED <<page, state, refs, media, events, yt, intervals, activated,
                   settingsVars, storeVars, playlistVars, historyVars, codec,
                   autoplay, mounted, widgetVars>>

\* the player effect of a component that mounts
mountInstance ==
    \E i \in Instances :
        /\ page = "pages" /\ instances[i].phase = "new"
        /\ LET c == [instances[i] EXCEPT !.phase = "mounted"]
           IN  IF c.refs.playerInitializedRef
               THEN /\ instances' = [instances EXCEPT ![i] = c]
                    /\ UNCHANGED <<ytApi, readyHook>>
               ELSE IF ytApi = "ready"
               THEN /\ instances' = [instances EXCEPT ![i] = runInitPlayer(c)]
                    /\ UNCHANGED <<ytApi, readyHook>>
               ELSE /\ instances' = [instances EXCEPT ![i] = c]
                    /\ ytApi' = "loading"
                    /\ readyHook' = chainCallback(readyHook, i)
        /\ ReadyStep("mount")

\* its cleanup
unmountInstance ==
    \E i \in Instances :
        /\ page = "pages" /\ instances[i].phase = "mounted"
        /\ LET c == [instances[i] EXCEPT !.phase = "unmounted"]
           IN  instances' =
                   [instances EXCEPT ![i] =
                       IF c.refs.playerRef
                       THEN [c EXCEPT !.refs.playerRef = FALSE,
                                      !.refs.playerInitializedRef = FALSE,
                                      !.yt = NewPlayer("")]
                       ELSE c]
        /\ ReadyStep("unmount")
        /\ UNCHANGED <<ytApi, readyHook>>

\* the IFrame API script has loaded and calls window.onYouTubeIframeAPIReady
scriptLoaded ==
    /\ page = "pages" /\ ytApi = "loading"
    /\ ytApi' = "ready"
    /\ instances' = runHook(instances, readyHook, 1)
    /\ ReadyStep("onYouTubeIframeAPIReady")
    /\ UNCHANGED readyHook

InitReady ==
    /\ Unmounted("pages")
    /\ NoPlaylist /\ NoHistory /\ NoCodec /\ NoHold
    /\ instances = [i \in Instances |-> NewInstance]
    /\ readyHook = <<>>

NextReady ==
    \/ mountInstance
    \/ unmountInstance
    \/ scriptLoaded

SpecReady == InitReady /\ [][NextReady]_vars

----------------------------------------------------------------------------
(* hooks/use-repeat-while-held.ts, components/ui/micro-adjust-button.tsx: a
   button that repeats its step while the pointer holds it.  Times are in
   milliseconds; the clock of the model moves in steps of 40 ms, and a timer
   that is due fires before the clock moves on. *)

DEFAULT_INITIAL_DELAY == 400
DEFAULT_REPEAT_INTERVAL == 80

\* the clock stops here
MaxTime == 800

\* the options the buttons are rendered with: none, or shorter delays
HoldOptions ==
    {[initialDelay |-> DEFAULT_INITIAL_DELAY, repeatInterval |-> DEFAULT_REPEAT_INTERVAL],
     [initialDelay |-> 80, repeatInterval |-> 40]}

\* setTimeout / setInterval: a new pending timer; its id is not that of a
\* pending timer
setTimer(h, kind, delay) ==
    LET ids == {t.id : t \in h.timers}
        id == CHOOSE n \in 1..(Cardinality(ids) + 1) : n \notin ids
    IN  [h EXCEPT !.timers = @ \cup {[id |-> id, kind |-> kind, due |-> h.now + delay]},
                  ![IF kind = "timeout" THEN "timeoutRef" ELSE "intervalRef"] = id]

\* clearTimeout(id), clearInterval(id)
clearTimer(h, id) == [h EXCEPT !.timers = {t \in @ : t.id # id}]

\* a clear that forgets the interval
clearTimeoutOnly(h) ==
    IF h.timeoutRef # 0
    THEN [clearTimer(h, h.timeoutRef) EXCEPT !.timeoutRef = 0]
    ELSE h

\* clear(): 0 is the null of a ref
clear(h) ==
    LET h1 == IF h.timeoutRef # 0
              THEN [clearTimer(h, h.timeoutRef) EXCEPT !.timeoutRef = 0]
              ELSE h
    IN  IF h1.intervalRef # 0
        THEN [clearTimer(h1, h1.intervalRef) EXCEPT !.intervalRef = 0]
        ELSE h1

\* callbackRef.current()
callStep(h) == [h EXCEPT !.calls = Append(@, h.now)]

HoldStep(h, op) ==
    /\ hold' = h
    /\ cmds' = <<>>
    /\ lastOp' = op
    /\ UNCHANGED <<page, state, refs, media, events, yt, ytApi, intervals, activated,
                   settingsVars, storeVars, playlistVars, historyVars, codec,
                   autoplay, mounted, instanceVars>>

\* onPointerDown; held and downAt record the press for the properties
onPointerDown ==
    \E button \in {0, 2} :
        /\ page = "button" /\ hold.rendered
        /\ IF button # 0 THEN HoldStep(hold, "onPointerDownOther")
           ELSE HoldStep(setTimer(callStep([clear(hold) EXCEPT !.calls = <<>>,
                                                              !.held = TRUE,
                                                              !.downAt = hold.now]),
                                  "timeout", hold.options.initialDelay),
                         "onPointerDown")

\* the timeout of onPointerDown fires
holdTimeout ==
    \E t \in hold.timers :
        /\ page = "button" /\ t.kind = "timeout" /\ t.due <= hold.now
        /\ HoldStep(setTimer([clearTimer(hold, t.id) EXCEPT !.timeoutRef = 0],
                              "interval", hold.options.repeatInterval),
                    "holdTimeout")

\* the interval fires
holdInterval ==
    \E t \in hold.timers :
        /\ page = "button" /\ t.kind = "interval" /\ t.due <= hold.now
        /\ HoldStep(callStep([hold EXCEPT !.timers =
                                  (@ \ {t}) \cup {[t EXCEPT !.due = @ + hold.options.repeatInterval]}]),
                    "holdInterval")

\* onPointerUp, onPointerLeave, onPointerCancel
onPointerUp ==
    \E op \in {"onPointerUp", "onPointerLeave", "onPointerCancel"} :
        /\ page = "button" /\ hold.rendered
        /\ HoldStep([clear(hold) EXCEPT !.held = FALSE], op)

\* the cleanup of the effect: the button unmounts
holdUnmount ==
    /\ page = "button" /\ hold.rendered
    /\ HoldStep([clear(hold) EXCEPT !.held = FALSE, !.rendered = FALSE], "holdUnmount")

\* 40 ms pass with no timer due
timePasses ==
    /\ page = "button" /\ hold.now + 40 <= MaxTime
    /\ \A t \in hold.timers : t.due > hold.now
    /\ HoldStep([hold EXCEPT !.now = @ + 40], "timePasses")

InitHold ==
    /\ Unmounted("button")
    /\ NoPlaylist /\ NoHistory /\ NoCodec /\ NoInstances
    /\ \E o \in HoldOptions :
           hold = [rendered |-> TRUE, options |-> o, now |-> 0, timeoutRef |-> 0,
                   intervalRef |-> 0, timers |-> {}, calls |-> <<>>, held |-> FALSE,
                   downAt |-> 0]

NextHold ==
    \/ onPointerDown
    \/ holdTimeout
    \/ holdInterval
    \/ onPointerUp
    \/ holdUnmount
    \/ timePasses

SpecHold == InitHold /\ [][NextHold]_vars

----------------------------------------------------------------------------
(* The pages after their mount *)

NoElement == [exists |-> FALSE, src |-> "", readyState |-> 0, currentTime |-> 0,
              duration |-> 0, paused |-> TRUE, muted |-> TRUE]

\* the settings fields at their useState defaults; the request of the mount
\* effect is on its way on the page that has one
MountedSettings(request) ==
    /\ fields = [k \in FieldKeys \ PageKeys |-> "default"]
    /\ loaded = request
    /\ response = <<>>

NoStore ==
    /\ rows = {} /\ nextId = 1 /\ calls = <<>>
    /\ got = [op |-> "start", arg |-> <<>>, result |-> {}]

MountedRefs(s) ==
    [isLoopingRef |-> s.isLooping, loopStartRef |-> 0, loopEndRef |-> 0,
     durationRef |-> 0, isSeeking |-> FALSE, autoPlayAttempted |-> FALSE,
     progressIntervalRef |-> 0, sourceModeRef |-> s.sourceMode,
     currentVideoIdRef |-> s.videoId, playerRef |-> FALSE,
     playerInitializedRef |-> FALSE, draggingRef |-> "none"]

\* play.tsx
PlayPage ==
    /\ page = "play"
    /\ state = [audioUrl |-> "u1", mp4Url |-> "", videoId |-> "", sourceMode |-> "audio",
                isMuted |-> FALSE, isPlaying |-> FALSE, isLooping |-> TRUE,
                loopStart |-> <<"0">>, loopEnd |-> <<>>, currentTime |-> 0,
                duration |-> 0, progress |-> Ratio(0, 1), playerReady |-> FALSE]
    /\ refs = MountedRefs(state)
    /\ media = [exists |-> TRUE, src |-> "u1", readyState |-> 0, currentTime |-> 0,
                duration |-> 0, paused |-> TRUE, muted |-> FALSE]
    /\ events = <<>>
    /\ yt = NewPlayer("")
    /\ ytApi = "absent"
    /\ intervals = {}
    /\ activated = FALSE
    /\ cmds = <<>>
    /\ lastOp = "mount"
    /\ MountedSettings("fetching") /\ NoStore /\ NoOther /\ mounted = TRUE

\* play.tsx in a browser that lets muted playback start by itself
InitPlay == PlayPage /\ autoplay = "muted"

\* home.tsx: the IFrame API script is requested by the mount
HomePage ==
    /\ page = "home"
    /\ state = [audioUrl |-> "", mp4Url |-> "", videoId |-> "v1", sourceMode |-> "youtube",
                isMuted |-> TRUE, isPlaying |-> TRUE, isLooping |-> TRUE,
                loopStart |-> <<"0">>, loopEnd |-> <<>>, currentTime |-> 0,
                duration |-> 0, progress |-> Ratio(0, 1), playerReady |-> FALSE]
    /\ refs = MountedRefs(state)
    /\ media = NoElement
    /\ events = <<>>
    /\ yt = NewPlayer("")
    /\ ytApi = "loading"
    /\ intervals = {}
    /\ activated = FALSE
    /\ cmds = <<>>
    /\ lastOp = "mount"
    /\ MountedSettings("absent") /\ NoStore /\ NoOther /\ mounted = TRUE

\* home.tsx in such a browser
InitHome == HomePage /\ autoplay = "muted"

\* what the native element does by itself, and the listeners it calls
ElementNext ==
    \/ onLoadedMetadata
    \/ MediaAdvance
    \/ MediaEnds
    \/ onPlay
    \/ onPause
    \/ onEnded

\* what the embedded player does by itself, and the callbacks it calls
PlayerNext ==
    \/ onYouTubeIframeAPIReady
    \/ onReady
    \/ ytBuffering
    \/ ytPlaying
    \/ ytEnded
    \/ ytAdvance

\* The loop controls of both pages in use.
NextLoop ==
    \/ ElementNext
    \/ PlayerNext
    \/ updateProgress
    \/ handleLoopToggle
    \/ loopStartInput
    \/ loopEndInput
    \/ onClearLoopStart
    \/ onClearLoopEnd
    \/ handleSetLoopStartToCurrent
    \/ handleSetLoopEndToCurrent
    \/ loopRangeSlider

SpecLoop == (InitPlay \/ InitHome) /\ [][NextLoop]_vars

\* The loop fields and the progress slider of both pages in use.
NextTick ==
    \/ ElementNext
    \/ PlayerNext
    \/ updateProgress
    \/ handleLoopToggle
    \/ loopStartInput
    \/ loopEndInput
    \/ handleProgressChange
    \/ handleProgressCommit

SpecTick == (InitPlay \/ InitHome) /\ [][NextTick]_vars

\* The transport controls of both pages in use.
NextTransport ==
    \/ ElementNext
    \/ PlayerNext
    \/ ytPaused
    \/ updateProgress
    \/ handlePlayToggle
    \/ handleMuteToggle
    \/ handleLoopToggle
    \/ handleProgressChange
    \/ handleProgressCommit
    \/ onSeek
    \/ openStemModal
    \/ handleAudioUrlChange

SpecTransport == (InitPlay \/ InitHome) /\ [][NextTransport]_vars

\* The source controls of home.tsx in use.
NextSource ==
    \/ ElementNext
    \/ PlayerNext
    \/ ytPaused
    \/ updateProgress
    \/ handlePlayToggle
    \/ handleSourceModeToggle
    \/ handleMp4UrlChange

SpecSource == InitHome /\ [][NextSource]_vars

\* The settings panel of play.tsx in use while the stored settings arrive.
NextSettings ==
    \/ onSettingsResponse
    \/ onSettingsFailure
    \/ editField
    \/ handleMuteToggle
    \/ loopEndInput
    \/ onLoadedMetadata

SpecSettings == InitPlay /\ [][NextSettings]_vars

\* Both pages start by themselves, in a browser that may let nothing start
\* before a user gesture.
NextAutoplay ==
    \/ ElementNext
    \/ PlayerNext
    \/ ytPaused
    \/ updateProgress
    \/ handlePlayToggle
    \/ handleMuteToggle
    \/ handleSourceModeToggle
    \/ handleAudioUrlChange

InitAutoplay == (PlayPage \/ HomePage) /\ autoplay \in {"muted", "none"}

SpecAutoplay == InitAutoplay /\ [][NextAutoplay]_vars

\* The media source of both pages is switched, by the URL fields, by the
\* source switch and by the stored settings, and the page is left.
NextTeardown ==
    \/ onLoadedMetadata
    \/ MediaEnds
    \/ onPlay
    \/ onPause
    \/ onEnded
    \/ onYouTubeIframeAPIReady
    \/ onReady
    \/ ytPlaying
    \/ updateProgress
    \/ handleAudioUrlChange
    \/ handleMp4UrlChange
    \/ handleSourceModeToggle
    \/ onSettingsResponse
    \/ onSettingsFailure
    \/ unmount

SpecTeardown == (InitPlay \/ InitHome) /\ [][NextTeardown]_vars

\* The loop handles of the hidden-mode controls are dragged, next to the
\* other loop controls.
NextDrag ==
    \/ onLoadedMetadata
    \/ MediaEnds
    \/ onPlay
    \/ onPause
    \/ onYouTubeIframeAPIReady
    \/ onReady
    \/ ytPlaying
    \/ updateProgress
    \/ handleSetLoopStartToCurrent
    \/ loopHandlePointerDown
    \/ handleLoopHandlePointerMove
    \/ handleLoopHandlePointerUp

SpecDrag == (InitPlay \/ InitHome) /\ [][NextDrag]_vars

----------------------------------------------------------------------------
(* The playback contract *)

\* the backend the poll timer and the scrub handlers address
Backend ==
    IF page = "play" THEN IF media.exists THEN "element" ELSE "none"
    ELSE IF refs.sourceModeRef = "youtube" /\ refs.playerRef THEN "player"
    ELSE IF refs.sourceModeRef = "mp4" /\ media.exists THEN "element"
    ELSE "none"

\* the position and the duration that backend reports
BackendTime == IF Backend = "player" THEN yt.time ELSE media.currentTime
BackendDuration == IF Backend = "player" THEN yt.duration ELSE media.duration

\* the seek command of that backend
SeekTo(t) == Cmd(IF Backend = "player" THEN "seekTo" ELSE "seek", t)

\* a tick that returns before it reads the position: a scrub is in progress,
\* there is no backend or no known duration, or the embedded player is
\* neither playing nor buffering
TickSuppressed ==
    \/ refs.isSeeking
    \/ Backend = "none"
    \/ BackendDuration <= 0
    \/ Backend = "player" /\ (~yt.ready \/ yt.state \notin {1, 3})

\* a loop end is set: one at or before the loop start counts as unset
LoopEndSet == refs.loopEndRef > refs.loopStartRef

\* C1 as stated: on every tick the adapter is commanded to seek to loopStart
\* if and only if looping is enabled, loopEnd is set and the position the
\* tick reads is at or after loopEnd.
C1_SeekIffLoopEndReached ==
    [][lastOp' = "updateProgress" =>
         ((\E i \in 1..Len(cmds') : cmds'[i] = SeekTo(refs.loopStartRef))
          <=> (refs.isLoopingRef /\ LoopEndSet /\ BackendTime >= refs.loopEndRef))]_vars

\* C1 amended: a tick that is not suppressed sends exactly one seek to
\* loopStart when looping is enabled, loopEnd is set and the position is at
\* or after loopEnd, and no command otherwise; a suppressed tick sends no
\* command at all.
C1_TickSeeksUnlessSuppressed ==
    [][lastOp' = "updateProgress" =>
         cmds' = IF /\ ~TickSuppressed
                    /\ refs.isLoopingRef /\ LoopEndSet
                    /\ BackendTime >= refs.loopEndRef
                 THEN <<SeekTo(refs.loopStartRef)>>
                 ELSE <<>>]_vars

\* the third tick of the example: loop 10 s .. 20 s of 60 s, position 20.1 s
C1_ThirdTickSeeks ==
    /\ page = "play" /\ lastOp = "updateProgress"
    /\ refs.isLoopingRef /\ refs.loopStartRef = Sec(10) /\ refs.loopEndRef = Sec(20)
    /\ state.duration = Sec(60) /\ state.currentTime = 201000
    /\ cmds = <<Cmd("seek", Sec(10))>>
    /\ media.currentTime = Sec(10)

\* C2 as stated: after each setLoopStart / setLoopEnd call the loop end in
\* force is unset (0) or strictly greater than the loop start in force.
C2_LoopEndUnsetOrAfterStart ==
    lastOp \in {"setLoopStart", "setLoopEnd", "loopRangeSlider"} =>
        refs.loopEndRef = 0 \/ refs.loopEndRef > refs.loopStartRef

\* C3 as stated: a setLoopStart call that puts the loop start at or after the
\* loop end in force leaves the loop end unset.
C3_StartPastEndUnsetsEnd ==
    [][/\ lastOp' = "setLoopStart"
       /\ refs.loopEndRef > 0
       /\ refs'.loopStartRef >= refs.loopEndRef
       => refs'.loopEndRef = 0]_vars

\* C4 as stated: the handler of the backend's ended event commands a seek to
\* loopStart and a resume of playback when looping is enabled, and leaves
\* isPlaying false when looping is disabled, on both backends.
C4_EndedLoopsOrStops ==
    /\ lastOp = "onEnded" =>
          IF refs.isLoopingRef
          THEN cmds = <<Cmd("seek", refs.loopStartRef), Cmd("play", 0)>>
          ELSE ~state.isPlaying
    /\ lastOp = "onStateChange0" =>
          IF refs.isLoopingRef
          THEN cmds = <<Cmd("seekTo", refs.loopStartRef), Cmd("playVideo", 0)>>
          ELSE ~state.isPlaying

\* the commands that start, stop or reload the backend
TransportOps == {"play", "pause", "load", "playVideo", "pauseVideo", "loadVideoById"}

\* C5 as stated: a mute toggle leaves isPlaying as it is and sends no play,
\* pause or load command to the backend.
C5_MuteOnlyTogglesSound ==
    [][lastOp' = "handleMuteToggle" =>
         /\ state'.isPlaying = state.isPlaying
         /\ \A i \in 1..Len(cmds') : cmds'[i].op \notin TransportOps]_vars

\* C6: while a scrub is in progress no tick writes currentTime or progress,
\* and onProgressChange sends no command to the adapter.
C6_ScrubHoldsProgress ==
    [][/\ (lastOp' = "updateProgress" /\ refs.isSeeking) =>
              /\ state'.currentTime = state.currentTime
              /\ state'.progress = state.progress
              /\ cmds' = <<>>
       /\ lastOp' = "handleProgressChange" =>
              /\ refs'.isSeeking
              /\ cmds' = <<>>]_vars

\* a tick during a scrub, with the backend away from the displayed position
C6_TickDuringScrub ==
    /\ lastOp = "updateProgress" /\ refs.isSeeking
    /\ Backend # "none" /\ BackendDuration > 0
    /\ BackendTime # state.currentTime
    /\ state.progress # Ratio(BackendTime * 100, BackendDuration)

\* C7: onProgressCommit(p) sends exactly one seek, to p/100 x duration, and
\* sets currentTime to it when the duration is known and the backend exists,
\* sends no seek otherwise, and always leaves isSeeking false.
C7_CommitSeeksOnce ==
    [][lastOp' = "handleProgressCommit" =>
         /\ ~refs'.isSeeking
         /\ IF state.duration > 0 /\ Backend # "none"
            THEN \E p \in Percents :
                     /\ cmds' = <<SeekTo((p * state.duration) \div 100)>>
                     /\ state'.currentTime = (p * state.duration) \div 100
            ELSE cmds' = <<>>]_vars

\* a scrub released at 25 % of 60 s
C7_CommitAtQuarter ==
    /\ lastOp = "handleProgressCommit"
    /\ state.duration = Sec(60) /\ state.progress = Ratio(25, 1)
    /\ cmds = <<SeekTo(Sec(15))>> /\ state.currentTime = Sec(15)
    /\ BackendTime = Sec(15)
    /\ ~refs.isSeeking

----------------------------------------------------------------------------
(* The settings contract *)

\* the value the snapshot holds for the field k, if it holds one
InSnapshot(d, k) ==
    \/ k \in Range(SettingsKeys) /\ k \in DOMAIN d.settings
    \/ k \in Range(UrlKeys) /\ k \in DOMAIN OrEmpty(d, "globalUrls")

SnapshotValue(d, k) ==
    IF k \in Range(SettingsKeys) THEN d.settings[k] ELSE d.globalUrls[k]

\* C8: applying a loaded snapshot gives every field whose key the snapshot
\* holds (in settings or in globalUrls) the snapshot's value and leaves every
\* other field at its value before the load; a response without a snapshot,
\* and a failed request, change no field.
C8_ApplyChangesOnlyPresentKeys ==
    [][/\ lastOp' = "applySettings" =>
            \A k \in FieldKeys :
                Field(state', fields', k) =
                    IF InSnapshot(response', k) THEN SnapshotValue(response', k)
                    ELSE Field(state, fields, k)
       /\ lastOp' \in {"settingsResponse", "settingsFailure"} =>
            \A k \in FieldKeys : Field(state', fields', k) = Field(state, fields, k)]_vars

\* a snapshot that holds only title, loaded over fields that were edited
C8_OnlyTitleLoaded ==
    /\ lastOp = "applySettings"
    /\ DOMAIN response.settings = {"title"}
    /\ DOMAIN OrEmpty(response, "globalUrls") = {}
    /\ fields.title = "saved1"
    /\ fields.buttonLabel = "edited" /\ fields.buttonUrl = "edited"
    /\ state.isMuted /\ state.loopEnd = NatToStr(20000)

----------------------------------------------------------------------------
(* The storage contract *)

\* C9: getRouteSettings(route, width) returns nothing when no snapshot of
\* the route is stored, and otherwise a stored snapshot of that route whose
\* distance |stored width - requested width| is the least among the stored
\* snapshots of the route.
C9_ClosestWidth ==
    lastOp = "getRouteSettings" =>
        LET stored == OfRoute(rows, got.arg.route)
        IN  IF stored = {} THEN got.result = {}
            ELSE \E row \in stored :
                    /\ got.result = {row}
                    /\ \A r \in stored :
                           Abs(row.width - got.arg.width) <= Abs(r.width - got.arg.width)

\* widths 400, 800 and 1200 stored, 900 requested, the 800 snapshot returned
C9_Request900Returns800 ==
    /\ lastOp = "getRouteSettings"
    /\ got.arg = [route |-> "play", width |-> 900]
    /\ {r.width : r \in OfRoute(rows, "play")} = {400, 800, 1200}
    /\ \E row \in got.result : row.width = 800

\* the call whose statement ran in this step
Stepped(i) ==
    \/ lastOp' = "saveWrite" /\ i \in 1..Len(calls)
       /\ calls[i].pc = "write" /\ calls' = [calls EXCEPT ![i].pc = "propagate"]
    \/ lastOp' = "saveRouteSettings" /\ i \in 1..Len(calls)
       /\ calls[i].pc = "propagate" /\ got'.arg = calls[i].data

\* C10: when a saveRouteSettings call completes, every stored snapshot of
\* its route holds the saved globalUrls; and no statement of the call changes
\* the settings map of another width of the route or any snapshot of another
\* route.
C10_GlobalUrlsPropagate ==
    [][/\ lastOp' = "saveRouteSettings" =>
            \A r \in OfRoute(rows', got'.arg.route) :
                r.globalUrls = got'.arg.globalUrls
       /\ \A i \in 1..MaxCalls : Stepped(i) =>
            \A r \in rows :
                \/ r.route = calls[i].data.route /\ r.width = calls[i].data.width
                \/ \E r2 \in rows' :
                       /\ r2.id = r.id /\ r2.route = r.route /\ r2.width = r.width
                       /\ r2.settings = r.settings
                       /\ r.route # calls[i].data.route => r2 = r]_vars

\* a completed save of a route that has another width stored, with other
\* settings, next to a snapshot of another route
C10_SaveNextToOthers ==
    /\ lastOp = "saveRouteSettings"
    /\ \E r1 \in rows, r2 \in rows, r3 \in rows :
           /\ r1.route = got.arg.route /\ r1.width = got.arg.width
           /\ r2.route = got.arg.route /\ r2.width # got.arg.width
           /\ r2.settings # got.arg.settings /\ r2.globalUrls = got.arg.globalUrls
           /\ r3.route # got.arg.route /\ r3.globalUrls # got.arg.globalUrls

\* C11: saving is an upsert by (route, width): after every statement of a
\* saveRouteSettings call the table holds at most one snapshot per (route,
\* width), and the write of a call whose pair is already stored overwrites
\* the settings of that snapshot and adds no record.
C11_UpsertByRouteAndWidth ==
    [][/\ \A r1 \in rows', r2 \in rows' :
              (r1.route = r2.route /\ r1.width = r2.width) => r1 = r2
       /\ \A i \in 1..MaxCalls :
              (/\ Stepped(i) /\ lastOp' = "saveWrite"
               /\ OfRouteAndWidth(rows, calls[i].data) # {}) =>
                  /\ Cardinality(rows') = Cardinality(rows)
                  /\ \A r \in OfRouteAndWidth(rows', calls[i].data) :
                         r.settings = calls[i].data.settings]_vars

----------------------------------------------------------------------------
(* The playlist contract *)

\* C12: over any POST /api/playlist and DELETE /api/playlist/:id requests,
\* a POST whose videoId is in the playlist when it is answered returns 409
\* and stores nothing, a valid POST of an absent videoId returns 201 and
\* adds exactly one entry, and the playlist never holds two entries with
\* the same videoId.
C12_PlaylistConflict ==
    [][/\ \A a \in playlistItems', b \in playlistItems' :
              a.videoId = b.videoId => a = b
       /\ (lastOp' = "POST /api/playlist" /\ safeParse(res'.body)) =>
              IF getPlaylistItemByVideoId(playlistItems, res'.body.videoId) # {}
              THEN res'.status = 409 /\ playlistItems' = playlistItems
              ELSE /\ res'.status = 201
                   /\ \E it \in playlistItems' \ playlistItems :
                          /\ it.videoId = res'.body.videoId
                          /\ playlistItems' = playlistItems \cup {it}]_vars

----------------------------------------------------------------------------
(* The URL history contract *)

\* the entries stored under a key (none when nothing is stored)
Entries(store, key) == store[key].items

HistoryOps == {"loadUrlHistory", "saveUrlToHistory", "removeUrlFromHistory"}

\* C13: starting from an empty history, after any sequence of save(key,
\* url) and remove(key, url) calls the sequence stored under each key has
\* at most 20 entries and holds no URL twice.
C13_HistoryCappedAndUnique ==
    \A key \in HistoryKeys :
        LET items == Entries(localStorage, key)
        IN  /\ localStorage[key].kind \in {"none", "array"}
            /\ Len(items) <= 20
            /\ \A i \in 1..Len(items), j \in 1..Len(items) :
                   items[i] = items[j] => i = j

\* a save that found 20 entries and dropped the oldest, in a run that has
\* re-saved or removed URLs as well
C13_SavedIntoFullHistory ==
    /\ lastOp = "saveUrlToHistory" /\ ~IsBlank(called.url)
    /\ used.edits > 0
    /\ Len(called.before.items) = 20
    /\ \A i \in 1..20 : called.before.items[i] # called.url
    /\ Len(Entries(localStorage, called.key)) = 20

\* the previous entries other than url, in their previous order
Others(prev, url) == SelectSeq(prev, LAMBDA u : u # url)

\* C14: save(key, url) with a non-blank url returns and persists [url]
\* followed by the previous entries other than url in their previous order,
\* cut to the first 20, and touches no other key; re-saving a present URL
\* moves it to the front and keeps the length; 25 distinct URLs saved in a
\* row leave 20 entries, the 25th first and the 6th last.  With a blank url
\* it returns the existing list and persists nothing.
C14_SavePrependsAndTruncates ==
    [][lastOp' = "saveUrlToHistory" =>
         LET key == called'.key
             url == called'.url
             prev == Entries(localStorage, key)
             whole == <<url>> \o Others(prev, url)
             now == Entries(localStorage', key)
         IN  IF IsBlank(url)
             THEN /\ ~called'.threw /\ called'.ret.items = prev
                  /\ localStorage' = localStorage
             ELSE /\ ~called'.threw /\ called'.ret.items = now
                  /\ localStorage'[key].kind = "array"
                  /\ Len(now) = Min(Len(whole), 20)
                  /\ \A i \in 1..Len(now) : now[i] = whole[i]
                  /\ \A k \in HistoryKeys \ {key} : localStorage'[k] = localStorage[k]
                  /\ (\E i \in 1..Len(prev) : prev[i] = url) =>
                         now[1] = url /\ Len(now) = Len(prev)
                  /\ (used'.urls[key] = 25 /\ used'.edits = 0) =>
                         Len(now) = 20 /\ now[1] = Url(25) /\ now[20] = Url(6)]_vars

\* the 25th distinct URL saved in a row
C14_TwentyFifthSaved ==
    /\ lastOp = "saveUrlToHistory" /\ called.url = Url(25)
    /\ used.edits = 0
    /\ Len(called.before.items) = 20
    /\ Entries(localStorage, called.key)[1] = Url(25)
    /\ Entries(localStorage, called.key)[20] = Url(6)

\* C15: load, save and remove never propagate an error when the storage is
\* unavailable, the quota is exceeded on write, or the stored value is
\* corrupt (unparseable, or parseable but not a list of strings); load
\* then yields the empty sequence.
C15_HistoryFailuresSwallowed ==
    /\ lastOp \in HistoryOps => ~called.threw
    /\ (/\ lastOp = "loadUrlHistory"
        /\ storageMode = "unavailable" \/ called.before \in Corrupt) =>
           called.ret = Array(<<>>)

----------------------------------------------------------------------------
(* The time codec contract *)

----------------------------------------------------------------------------
(* The transport contract before the backend is ready *)

\* the transport operations of the model (the volume is not part of it)
TransportGestures == {"handlePlayToggle", "handleMuteToggle", "onSeek",
                      "handleProgressCommit"}

\* C17: a transport operation (play, pause, mute, seek) issued while
\* playerReady is false sends no command to the backend, on both pages and
\* for both backends.
C17_IgnoredBeforeReady ==
    [][(~state.playerReady /\ lastOp' \in TransportGestures) => cmds' = <<>>]_vars

----------------------------------------------------------------------------
(* The autoplay contract *)

\* the last action sent the command op to its backend
Sent(op) == \E i \in 1..Len(cmds) : cmds[i].op = op

\* the last action attempted to start the playback by itself and the host
\* refused: the loadedmetadata listener called play() and the element is
\* still paused, or the ready callback of the embedded player (created with
\* autoplay: 1) led to playVideo() in a host that lets nothing start
AutoplayRejected ==
    \/ lastOp = "onLoadedMetadata" /\ Sent("play") /\ media.paused
    \/ lastOp = "onReady" /\ Sent("playVideo") /\ ~activated /\ ~MutedStarts

\* C18: when an autoplay attempt is rejected by the host environment,
\* isPlaying is false afterwards, on every page and backend.
C18_RejectedAutoplayNotPlaying ==
    AutoplayRejected => ~state.isPlaying

\* the media source in force
Source(st) ==
    CASE st.sourceMode = "audio" -> st.audioUrl
      [] st.sourceMode = "mp4" -> st.mp4Url
      [] OTHER -> st.videoId

\* the callbacks of the poll timer and of the listeners of the element
SourceCallbacks == {"updateProgress", "onLoadedMetadata", "onPlay", "onPause", "onEnded"}

\* a step switches the media source
Switched == Source(state') # Source(state)

\* C19: after the media source is switched, by any path that changes it, or
\* the component unmounts, the poll timer of the previous source has been
\* cleared and its listeners removed: no tick and no listener callback of the
\* old source runs afterwards, and at most one poll timer is live at any time.
C19_SwitchOrUnmountTearsDown ==
    [][/\ Switched => intervals' \cap intervals = {}
       /\ Cardinality(intervals') <= 1
       /\ ~mounted' => intervals' = {}
       /\ ~mounted => lastOp' \notin SourceCallbacks]_vars

\* the page components that are mounted
MountedInstances == {i \in Instances : instances[i].phase = "mounted"}

\* C20: when several player instances register before the IFrame API script
\* has loaded, each registration chains to the ready callback registered
\* before it: no mounted instance is dropped from the callback, and once the
\* script has called the hook every mounted instance has created its player
\* exactly once.
C20_ReadyHookChains ==
    \A i \in MountedInstances :
        IF ytApi = "ready"
        THEN instances[i].created = 1 /\ instances[i].refs.playerRef
        ELSE i \in Range(readyHook)

\* the hook has just created the players of two components that registered
\* before the script loaded
C20_TwoRegisteredCreated ==
    /\ lastOp = "onYouTubeIframeAPIReady"
    /\ \E i, j \in MountedInstances :
           /\ i # j /\ {i, j} \subseteq Range(readyHook)
           /\ instances[i].created = 1 /\ instances[j].created = 1

\* the time at which the n-th call of a press is due: at the press, after
\* initialDelay, then every repeatInterval
DueCall(n) ==
    IF n = 1 THEN hold.downAt
    ELSE hold.downAt + hold.options.initialDelay + (n - 2) * hold.options.repeatInterval

\* C21: while the primary pointer is held down, the callback runs once at
\* pointer-down, again after initialDelay ms, then every repeatInterval ms
\* until the pointer is released.
C21_RepeatsAfterInitialDelay ==
    (page = "button" /\ hold.held) =>
        \A n \in 1..Len(hold.calls) : hold.calls[n] = DueCall(n)

\* C30: after pointer-up, pointer-leave, pointer-cancel or unmount the
\* callback is not invoked again until the next primary-button pointer-down
\* (no timer stays pending); at most one of the initial-delay timeout and the
\* repeat interval is pending at any time; a pointer-down of another button
\* invokes nothing and starts no timer.
C30_ReleaseStopsRepeat ==
    [][page = "button" =>
          /\ (hold.calls' # hold.calls /\ lastOp' # "onPointerDown") => hold.held
          /\ ~hold.held' => hold.timers' = {}
          /\ Cardinality(hold.timers') <= 1
          /\ lastOp' = "onPointerDownOther" => hold' = hold]_vars

\* the pointer is released after the step has repeated, and time has passed
C30_ReleasedAfterRepeats ==
    /\ page = "button" /\ ~hold.held /\ Len(hold.calls) >= 3
    /\ lastOp = "timePasses" /\ hold.now >= hold.calls[Len(hold.calls)] + 80

\* C29: when two POST /api/playlist requests for the same absent videoId
\* are in flight at once, at most one of them returns 201 and the playlist
\* ends with exactly one entry for that videoId: a 201 is never answered for
\* a videoId another request has stored in the meantime.
C29_OneCreatedOfTwoInFlight ==
    [][(lastOp' = "POST /api/playlist" /\ res'.status = 201) =>
          /\ getPlaylistItemByVideoId(playlistItems, res'.body.videoId) = {}
          /\ Cardinality(getPlaylistItemByVideoId(playlistItems', res'.body.videoId)) = 1
      ]_vars

\* C28: if a player page unmounts before the IFrame API script has called
\* the ready hook, no player is created for it when the hook fires later:
\* an unmounted instance has no live player, in every ordering of mount,
\* unmount and script-ready.
C28_UnmountedHasNoPlayer ==
    page = "pages" =>
        \A i \in Instances :
            instances[i].phase = "unmounted" => ~instances[i].refs.playerRef

\* C26: in YouTube mode a mute toggle leaves the loaded video, currentTime,
\* progress, duration, loopStart and loopEnd as they are: no reload of the
\* video and no reset of the loop bounds.
C26_MuteKeepsVideoAndLoop ==
    [][(lastOp' = "handleMuteToggle" /\ page = "home" /\ state.sourceMode = "youtube") =>
          /\ \A x \in {"currentTime", "progress", "duration", "loopStart", "loopEnd"} :
                 state'[x] = state[x]
          /\ yt'.videoId = yt.videoId /\ yt'.time = yt.time /\ yt'.state = yt.state
          /\ \A i \in 1..Len(cmds') : cmds'[i].op # "loadVideoById"]_vars

\* a step changes the URL of the native media element
UrlChanged == state'.audioUrl # state.audioUrl \/ state'.mp4Url # state.mp4Url

\* C23: every change of the media URL, by whichever path (the URL field, a
\* history entry, a loaded settings snapshot), resets currentTime, duration
\* and progress to 0 and the loop bounds to their defaults (start 0, end
\* unset).
C23_UrlChangeResets ==
    [][UrlChanged =>
          /\ state'.currentTime = 0 /\ state'.duration = 0
          /\ state'.progress = Ratio(0, 1)
          /\ state'.loopStart = <<"0">> /\ state'.loopEnd = <<>>]_vars

\* C24: during a loop-handle drag every pointer move yields a start value in
\* [0, end - 0.01] or an end value in [start + 0.01, duration] (end: the
\* effective end, the duration when unset), so after the move
\* start < end <= duration and the handles have not crossed.
C24_DragKeepsHandlesApart ==
    [][lastOp' = "handleLoopHandlePointerMove" =>
          /\ IF refs.draggingRef = "start"
             THEN /\ loopStartSeconds(state') >= 0
                  /\ loopStartSeconds(state') <= rangeEnd(state) - 100
             ELSE /\ loopEndSeconds(state') >= loopStartSeconds(state) + 100
                  /\ loopEndSeconds(state') <= state.duration
          /\ loopStartSeconds(state') < rangeEnd(state')
          /\ rangeEnd(state') <= state'.duration]_vars

\* C22 as stated: whenever the duration is known, the loop start in force is
\* at most the duration and the loop end in force is unset (0) or at most the
\* duration, also for bounds that were set before the duration was known.
C22_BoundsWithinDuration ==
    state.duration > 0 =>
        /\ refs.loopStartRef <= state.duration
        /\ refs.loopEndRef = 0 \/ refs.loopEndRef <= state.duration

\* the loop end the tick compares against: loopEndRef counts only when it is
\* past loopStartRef
TickEnd(r) == IF r.loopEndRef > r.loopStartRef THEN r.loopEndRef ELSE 0

\* the loop end the page displays: loopEnd when it is past loopStart
ShownEnd(st) ==
    IF loopEndSeconds(st) > loopStartSeconds(st) THEN loopEndSeconds(st) ELSE 0

\* C25 as stated: at every tick of the poll the bounds the tick compares
\* against agree with the loop range the loopStart and loopEnd state gives:
\* the same start, and the same end or no end on both sides.
C25_TickBoundsMatchState ==
    [][lastOp' = "updateProgress" =>
          /\ refs.loopStartRef = loopStartSeconds(state)
          /\ TickEnd(refs) = ShownEnd(state)]_vars

\* the callbacks of the embedded player's state changes, and the listeners
\* of the <video> element
PlayerEvents == {"onStateChange0", "onStateChange1", "onStateChange2", "onStateChange3"}
ElementEvents == {"onPlay", "onPause", "onEnded"}

\* a seek or a start of playback is among the commands sent
SeeksOrPlays(cs) ==
    \E i \in 1..Len(cs) : cs[i].op \in {"seekTo", "playVideo", "seek", "play"}

\* C27 as stated: on home.tsx an event of the backend that is not selected
\* changes neither isPlaying nor duration and sends no seek and no play:
\* the embedded player's state changes while sourceMode is "mp4", the
\* <video> element's events while sourceMode is "youtube".
C27_OtherBackendEventsInert ==
    [][(/\ page = "home"
        /\ \/ state.sourceMode = "mp4" /\ lastOp' \in PlayerEvents
           \/ state.sourceMode = "youtube" /\ lastOp' \in ElementEvents)
       => /\ state'.isPlaying = state.isPlaying
          /\ state'.duration = state.duration
          /\ ~SeeksOrPlays(cmds')]_vars

====
